---- MODULE Spec2Model ----
(***************************************************************************)
(* Streaming form-body scanners of asgi-tools (asgi_tools/multipart.py)    *)
(* and their event sinks (asgi_tools/forms.py).                            *)
(*                                                                         *)
(* Bytes are integers (their ASCII codes); a chunk or a body is a sequence *)
(* of bytes.  Python's 0-based data[i] is data[i + 1] here.                *)
(***************************************************************************)
EXTENDS Integers, Sequences, FiniteSets, TLC

VARIABLES
    kind,              \* "mp": MultipartParser, "qs": QueryStringParser
    body,              \* the request body the transport will deliver
    pos,               \* number of body bytes already handed to write()
    boundary,          \* the boundary token given to MultipartParser()
    max_size,          \* self.max_size
    cursize,           \* self.cursize
    state,             \* self.state
    index,             \* self.index
    flags,             \* self.flags
    header_field_pos,  \* self.header_field_pos
    header_value_pos,  \* self.header_value_pos
    part_data_pos,     \* self.part_data_pos
    lookbehind,        \* self.lookbehind
    messages,          \* the sink's list of (event, bytes)
    raised,            \* exception that ended the last write(), or "none"
    finalized,         \* finalize() has been called
    empties,           \* number of zero-length chunks written so far
    feed_size,         \* 0: chunks of any size; k > 0: chunks of k bytes
    fields,            \* the (name, value) pairs the client encoded, if any
    readEnd,           \* history: 1 + offset in body of the last byte read
    sliceEnd,          \* history: largest end offset in body of a slice
    resume,            \* history: the last candidate delimiter that failed
    skipped,           \* history: body offsets the skip search passed over
    finalizes,         \* number of finalize() calls so far
    request,           \* the Request: its scope, _is_read, _body, _form
    channel,           \* the transport behind receive(): chunks, calls made
    pipe,              \* the test client's Pipe: flags and queues
    last,              \* the last call on the request or the pipe, its outcome
    ncalls,            \* number of calls made on the request or the pipe
    calls,             \* history: the calls the orchestrator made on the scanner
    websocket          \* the WebSocket: state, partner_state, messages sent

vars == <<kind, body, pos, boundary, max_size, cursize, state, index, flags,
          header_field_pos, header_value_pos, part_data_pos, lookbehind,
          messages, raised, finalized, empties, feed_size, fields, readEnd,
          sliceEnd, resume, skipped, finalizes, request, channel, pipe,
          last,
          ncalls, calls, websocket>>

\* the variables of the request and of the pipe
appvars == <<request, channel, pipe, last, ncalls, calls, websocket>>

\* the variables of the scanners
scanvars == <<body, pos, boundary, max_size, cursize, state, index, flags,
              header_field_pos, header_value_pos, part_data_pos, lookbehind,
              messages, raised, finalized, empties, feed_size, fields,
              readEnd, sliceEnd, resume, skipped, finalizes>>

NoBody == <<-1>>

\* no candidate delimiter has failed yet; otherwise cand is the offset in the
\* body of the candidate's first byte, at the offset of the byte the scanner
\* examined next, ev the index of the event that replayed the candidate
NoResume == [cand |-> -1, at |-> -1, ev |-> 0]
NoForm == [id |-> 0, items |-> <<>>]
\* no websocket: the value of a new one, websocket.py:24-28
NoWebSocket ==
    [state |-> "connecting", partner_state |-> "connecting", sent |-> <<>>]
NoCall == [op |-> "none", exc |-> "none", bytes |-> <<>>, form |-> NoForm,
           max_size |-> 0]

\* no request and no pipe: the scanner is driven directly
AppIdle ==
    /\ request = [content_type |-> "none", dev |-> FALSE, is_read |-> FALSE,
                  body |-> NoBody, form |-> NoForm]
    /\ channel = [pending |-> <<>>, received |-> 0]
    /\ pipe = [app_is_closed |-> FALSE, client_is_closed |-> FALSE,
               app_queue |-> <<>>, client_queue |-> <<>>]
    /\ last = NoCall
    /\ ncalls = 0
    /\ calls = <<>>
    /\ websocket = NoWebSocket

----------------------------------------------------------------------------
(* Byte constants, multipart.py:15-23 *)
AMPERSAND == 38
COLON == 58
CR == 13
EQUAL == 61
HYPHEN == 45
LF == 10
SEMICOLON == 59
SPACE == 32
EMPTY == 0

(* Flags for the multipart parser, multipart.py:9-10 *)
FLAG_PART_BOUNDARY == 1
FLAG_LAST_BOUNDARY == 2

(* multipart.py:65-67 *)
STATE_BEFORE_FIELD == 0
STATE_FIELD_NAME == 1
STATE_FIELD_DATA == 2

(* multipart.py:188-199 *)
STATE_START == 0
STATE_START_BOUNDARY == 1
STATE_HEADER_FIELD_START == 2
STATE_HEADER_FIELD == 3
STATE_HEADER_VALUE_START == 4
STATE_HEADER_VALUE == 5
STATE_HEADER_VALUE_ALMOST_DONE == 6
STATE_HEADERS_ALMOST_DONE == 7
STATE_PART_DATA_START == 8
STATE_PART_DATA == 9
STATE_PART_DATA_END == 10
STATE_END == 11

----------------------------------------------------------------------------
(* Generic helpers for Python's sequence operations *)

Max(a, b) == IF a > b THEN a ELSE b
Min(a, b) == IF a < b THEN a ELSE b

\* data[a:b] for 0 <= a; the end is clamped to len(data) as Python does
Slice(data, a, b) == SubSeq(data, a + 1, Min(b, Len(data)))

\* s with the 0-based position i set to v
SetAt(s, i, v) == [s EXCEPT ![i + 1] = v]

RECURSIVE Concat(_)
Concat(ss) == IF ss = <<>> THEN <<>> ELSE Head(ss) \o Concat(Tail(ss))

\* flags & bit # 0, flags | bit, flags & ~bit for bit in {1, 2}
HasFlag(f, bit) == (f \div bit) % 2 = 1
SetFlag(f, bit) == IF HasFlag(f, bit) THEN f ELSE f + bit
ClearFlag(f, bit) == IF HasFlag(f, bit) THEN f - bit ELSE f

----------------------------------------------------------------------------
(* prune_data, multipart.py:568-572 *)

\* a variant that never clips
prune_data_Unclipped(data_len, cur, max) == data_len

\* a variant that drops the whole chunk that crosses the limit
prune_data_DropChunk(data_len, cur, max) ==
    IF max # 0 /\ (cur + data_len) > max THEN 0 ELSE data_len

prune_data(data_len, cur, max) ==
    IF max # 0 /\ (cur + data_len) > max THEN max - cur ELSE data_len

----------------------------------------------------------------------------
(* QueryStringParser, multipart.py:70-185 *)

\* data.find(ch, start, end): the least offset in [start, end) that holds
\* ch, or -1; the end is clamped to len(data)
Find(data, ch, start, end) ==
    LET S == {i \in start..(Min(end, Len(data)) - 1) : data[i + 1] = ch}
    IN IF S = {} THEN -1 ELSE CHOOSE i \in S : \A k \in S : i <= k

\* 1 + the last offset that data.find(ch, start, end) looks at
FindRead(data, ch, start, end) ==
    IF Find(data, ch, start, end) # -1 THEN Find(data, ch, start, end) + 1
    ELSE IF start < Min(end, Len(data)) THEN Min(end, Len(data))
    ELSE 0

\* sep_pos = data.find(AMPERSAND, idx)
\* if sep_pos == -1: sep_pos = data.find(SEMICOLON, idx)   multipart.py:128-130
SepPos(data, idx) ==
    IF Find(data, AMPERSAND, idx, Len(data)) # -1
    THEN Find(data, AMPERSAND, idx, Len(data))
    ELSE Find(data, SEMICOLON, idx, Len(data))

SepRead(data, idx) ==
    IF Find(data, AMPERSAND, idx, Len(data)) # -1
    THEN FindRead(data, AMPERSAND, idx, Len(data))
    ELSE Max(FindRead(data, AMPERSAND, idx, Len(data)),
             FindRead(data, SEMICOLON, idx, Len(data)))

QSEmit(s, name, data, start, end, base) ==
    [s EXCEPT !.msgs = Append(@, <<name, Slice(data, start, end)>>),
              !.se = IF Min(end, Len(data)) > start
                     THEN Max(@, base + Min(end, Len(data))) ELSE @]

QSNotify(s, name) == [s EXCEPT !.msgs = Append(@, <<name, <<>>>>)]

\* STATE_BEFORE_FIELD, multipart.py:120-125
QSStepBeforeField(s, ch) ==
    IF ~(ch = AMPERSAND \/ ch = SEMICOLON)
    THEN [QSNotify(s, "field_start") EXCEPT !.state = STATE_FIELD_NAME]
    ELSE [s EXCEPT !.idx = @ + 1]

\* STATE_FIELD_NAME, multipart.py:127-151
QSStepFieldName(s, data, data_len, base) ==
    LET sep_pos == SepPos(data, s.idx)
        equals_pos == IF sep_pos # -1
                      THEN Find(data, EQUAL, s.idx, sep_pos)
                      ELSE Find(data, EQUAL, s.idx, Len(data))
        eq_read == IF sep_pos # -1
                   THEN FindRead(data, EQUAL, s.idx, sep_pos)
                   ELSE FindRead(data, EQUAL, s.idx, Len(data))
        s1 == [s EXCEPT !.rd = Max(@, base + Max(SepRead(data, s.idx), eq_read))]
    IN IF equals_pos # -1
       THEN [QSEmit(s1, "field_name", data, s.idx, equals_pos, base) EXCEPT
                !.idx = equals_pos + 1, !.state = STATE_FIELD_DATA]
       ELSE IF sep_pos = -1
       THEN [QSEmit(s1, "field_name", data, s.idx, data_len, base) EXCEPT
                !.idx = data_len + 1]
       ELSE [QSNotify(QSEmit(s1, "field_name", data, s.idx, sep_pos, base),
                      "field_end") EXCEPT
                !.idx = sep_pos, !.state = STATE_BEFORE_FIELD]

\* STATE_FIELD_DATA, multipart.py:153-167
QSStepFieldData(s, data, data_len, base) ==
    LET sep_pos == SepPos(data, s.idx)
        s1 == [s EXCEPT !.rd = Max(@, base + SepRead(data, s.idx))]
    IN IF sep_pos = -1
       THEN [QSEmit(s1, "field_data", data, s.idx, data_len, base) EXCEPT
                !.idx = data_len + 1]
       ELSE [QSNotify(QSEmit(s1, "field_data", data, s.idx, sep_pos, base),
                      "field_end") EXCEPT
                !.idx = sep_pos, !.state = STATE_BEFORE_FIELD]

\* one iteration of `while idx < data_len`, multipart.py:118-172
QSStep(s, data, data_len, base) ==
    LET ch == data[s.idx + 1]
        s0 == [s EXCEPT !.rd = Max(@, base + s.idx + 1)]
    IN IF s.state = STATE_BEFORE_FIELD THEN QSStepBeforeField(s0, ch)
       ELSE IF s.state = STATE_FIELD_NAME
           THEN QSStepFieldName(s0, data, data_len, base)
       ELSE IF s.state = STATE_FIELD_DATA
           THEN QSStepFieldData(s0, data, data_len, base)
       ELSE [s0 EXCEPT !.err = "ValueError"]

RECURSIVE QSLoop(_, _, _, _)
QSLoop(s, data, data_len, base) ==
    IF s.err # "none" \/ ~(s.idx < data_len) THEN s
    ELSE QSLoop(QSStep(s, data, data_len, base), data, data_len, base)

\* QueryStringParser.write(data) on parser p, multipart.py:112-175
QSWrite(p, data, base) ==
    LET data_len == prune_data(Len(data), p.cursize, p.max_size)
        s == [idx |-> 0, state |-> p.state, msgs |-> p.msgs, err |-> "none",
              rd |-> p.rd, se |-> p.se]
        r == QSLoop(s, data, data_len, base)
    IN IF r.err # "none"
       THEN [p EXCEPT !.msgs = r.msgs, !.err = r.err, !.rd = r.rd, !.se = r.se]
       ELSE [p EXCEPT !.msgs = r.msgs, !.state = r.state,
                      !.cursize = @ + data_len, !.rd = r.rd, !.se = r.se]

\* a variant that finishes a field in every state
QSFinalizeOp_AlwaysFieldEnd(p) ==
    [p EXCEPT !.msgs = @ \o <<<<"field_end", <<>>>>, <<"end", <<>>>>>>]

\* a variant that does not finish the field in progress
QSFinalizeOp_NoFieldEnd(p) ==
    [p EXCEPT !.msgs = Append(@, <<"end", <<>>>>)]

\* QueryStringParser.finalize, multipart.py:177-185
QSFinalizeOp(p) ==
    LET p1 == IF p.state = STATE_FIELD_DATA
              THEN [p EXCEPT !.msgs = Append(@, <<"field_end", <<>>>>)]
              ELSE p
    IN [p1 EXCEPT !.msgs = Append(@, <<"end", <<>>>>)]

\* QueryStringParser.__init__, multipart.py:105-110; the attributes that
\* only MultipartParser has are left at fixed values
QSNew(max) ==
    [cursize |-> 0, max_size |-> max, state |-> STATE_BEFORE_FIELD,
     index |-> 0, flags |-> 0, hfp |-> -1, hvp |-> -1, pdp |-> -1,
     lb |-> <<>>, msgs |-> <<>>, err |-> "none", rd |-> 0, se |-> 0,
     rs |-> NoResume, sk |-> {}]

----------------------------------------------------------------------------
(* urllib.parse.unquote_plus and urlencode on ASCII text *)

IsHexDigit(c) ==
    \/ c >= 48 /\ c <= 57
    \/ c >= 65 /\ c <= 70
    \/ c >= 97 /\ c <= 102

HexVal(c) == IF c <= 57 THEN c - 48 ELSE IF c <= 70 THEN c - 55 ELSE c - 87

HexDigit(v) == IF v < 10 THEN 48 + v ELSE 55 + v

\* %XX with two hex digits becomes the byte, anything else stays
RECURSIVE unquote(_)
unquote(t) ==
    IF t = <<>> THEN <<>>
    ELSE IF t[1] = 37 /\ Len(t) >= 3 /\ IsHexDigit(t[2]) /\ IsHexDigit(t[3])
    THEN <<16 * HexVal(t[2]) + HexVal(t[3])>> \o unquote(SubSeq(t, 4, Len(t)))
    ELSE <<t[1]>> \o unquote(Tail(t))

\* string.replace('+', ' '), then unquote
unquote_plus(t) ==
    unquote([i \in 1..Len(t) |-> IF t[i] = 43 THEN SPACE ELSE t[i]])

\* letters, digits and "_.-~" are never quoted
IsUnreserved(c) ==
    \/ c >= 48 /\ c <= 57
    \/ c >= 65 /\ c <= 90
    \/ c >= 97 /\ c <= 122
    \/ c \in {95, 46, 45, 126}

RECURSIVE quote_plus(_)
quote_plus(t) ==
    IF t = <<>> THEN <<>>
    ELSE (IF IsUnreserved(t[1]) THEN <<t[1]>>
          ELSE IF t[1] = SPACE THEN <<43>>
          ELSE <<37, HexDigit(t[1] \div 16), HexDigit(t[1] % 16)>>)
           \o quote_plus(Tail(t))

\* urlencode(data) of the test client, asgi_tools/tests.py:176
RECURSIVE urlencode(_)
urlencode(fs) ==
    IF fs = <<>> THEN <<>>
    ELSE quote_plus(Head(fs)[1]) \o <<EQUAL>> \o quote_plus(Head(fs)[2])
           \o (IF Len(fs) > 1 THEN <<AMPERSAND>> ELSE <<>>)
           \o urlencode(Tail(fs))

----------------------------------------------------------------------------
(* The urlencoded sink, FormParser.parse, forms.py:73-91 *)

RECURSIVE FormLoop(_, _)
FormLoop(msgs, a) ==
    IF msgs = <<>> THEN a
    ELSE LET ev == Head(msgs)[1]
             data == Head(msgs)[2]
             b == IF ev = "field_start"
                    THEN [a EXCEPT !.name = <<>>, !.value = <<>>]
                  ELSE IF ev = "field_name"
                    THEN [a EXCEPT !.name = @ \o data]
                  ELSE IF ev = "field_data"
                    THEN [a EXCEPT !.value = @ \o data]
                  ELSE IF ev = "field_end"
                    THEN [a EXCEPT !.items =
                             Append(@, <<unquote_plus(a.name),
                                         unquote_plus(a.value)>>)]
                  ELSE a
         IN FormLoop(Tail(msgs), b)

SinkForm(msgs) ==
    FormLoop(msgs, [items |-> <<>>, name |-> <<>>, value |-> <<>>]).items

----------------------------------------------------------------------------
(* MultipartParser, multipart.py:202-565 *)

\* self.boundary = b'\r\n--' + boundary, multipart.py:275
FullBoundary(token) == <<CR, LF, HYPHEN, HYPHEN>> \o token

\* self.boundary_chars, multipart.py:278
BoundaryChars(token) == {FullBoundary(token)[i] : i \in 1..Len(FullBoundary(token))}

\* self.lookbehind at construction, multipart.py:284
InitLookbehind(token) == [i \in 1..(Len(token) + 8) |-> EMPTY]

\* self.callback(name, data, start, end) with the sink's on_<name> handler
\* appending (event, data[start:end]); base is the offset of data in the
\* body or -1 when data is not the chunk (the lookbehind copy)
Emit(s, name, data, start, end, base) ==
    [s EXCEPT !.msgs = Append(@, <<name, Slice(data, start, end)>>),
              !.se = IF base >= 0 /\ Min(end, Len(data)) > start
                     THEN Max(@, base + Min(end, Len(data))) ELSE @]

Notify(s, name) == [s EXCEPT !.msgs = Append(@, <<name, <<>>>>)]

Raise(s, exc) == [s EXCEPT !.err = exc]

\* a variant that strides on unless it sees the last byte of the delimiter
RECURSIVE SkipSearch_LastByteOnly(_, _, _, _)
SkipSearch_LastByteOnly(i, data, data_len, token) ==
    IF i < data_len - 1
         /\ data[i + 1] # FullBoundary(token)[Len(FullBoundary(token))]
    THEN SkipSearch_LastByteOnly(i + Len(FullBoundary(token)),
                                 data, data_len, token)
    ELSE i

\* while idx < data_len - 1 and data[idx] not in boundary_chars:
\*     idx += boundary_len                           multipart.py:420-421
RECURSIVE SkipSearch(_, _, _, _)
SkipSearch(i, data, data_len, token) ==
    IF i < data_len - 1 /\ data[i + 1] \notin BoundaryChars(token)
    THEN SkipSearch(i + Len(FullBoundary(token)), data, data_len, token)
    ELSE i

\* last offset whose byte the skip search read, or -1, multipart.py:420
RECURSIVE SkipRead(_, _, _, _)
SkipRead(i, data, data_len, token) ==
    IF i < data_len - 1
    THEN IF data[i + 1] \notin BoundaryChars(token)
         THEN Max(i, SkipRead(i + Len(FullBoundary(token)), data, data_len, token))
         ELSE i
    ELSE -1

\* a variant that opens the first part without part_begin
StepStartBoundary_NoPartBegin(s, ch, bnd) ==
    LET boundary_len == Len(bnd) IN
    IF s.index = boundary_len - 2
    THEN IF ch # CR THEN Raise(s, "ValueError")
         ELSE [s EXCEPT !.index = @ + 1, !.idx = @ + 1]
    ELSE IF s.index = boundary_len - 2 + 1
    THEN IF ch # LF THEN Raise(s, "ValueError")
         ELSE [s EXCEPT !.state = STATE_HEADER_FIELD_START, !.idx = @ + 1]
    ELSE IF ch = bnd[s.index + 2 + 1]
    THEN [s EXCEPT !.index = @ + 1, !.idx = @ + 1]
    ELSE Raise(s, "ValueError")

\* STATE_START_BOUNDARY, multipart.py:299-320
StepStartBoundary(s, ch, bnd) ==
    LET boundary_len == Len(bnd) IN
    IF s.index = boundary_len - 2
    THEN IF ch # CR THEN Raise(s, "ValueError")
         ELSE [s EXCEPT !.index = @ + 1, !.idx = @ + 1]
    ELSE IF s.index = boundary_len - 2 + 1
    THEN IF ch # LF THEN Raise(s, "ValueError")
         ELSE [Notify(s, "part_begin") EXCEPT
                  !.state = STATE_HEADER_FIELD_START, !.idx = @ + 1]
    ELSE IF ch = bnd[s.index + 2 + 1]
    THEN [s EXCEPT !.index = @ + 1, !.idx = @ + 1]
    ELSE Raise(s, "ValueError")

\* a variant that does not reset index at the start of a header line
StepHeaderFieldStart_KeepIndex(s) ==
    [s EXCEPT !.hfp = s.idx, !.state = STATE_HEADER_FIELD]

\* STATE_HEADER_FIELD_START, multipart.py:322-328
StepHeaderFieldStart(s) ==
    [s EXCEPT !.index = 0, !.hfp = s.idx, !.state = STATE_HEADER_FIELD]

\* STATE_HEADER_FIELD, multipart.py:330-354
StepHeaderField(s, ch, data, base) ==
    IF ch = CR
    THEN [s EXCEPT !.hfp = -1, !.state = STATE_HEADERS_ALMOST_DONE,
                   !.idx = @ + 1]
    ELSE IF ch = COLON
    THEN IF s.index + 1 = 1 THEN Raise([s EXCEPT !.index = @ + 1], "ValueError")
         ELSE LET s1 == IF s.hfp # -1
                        THEN [Emit(s, "header_field", data, s.hfp, s.idx, base)
                                 EXCEPT !.hfp = -1]
                        ELSE s
              IN [s1 EXCEPT !.index = @ + 1,
                            !.state = STATE_HEADER_VALUE_START,
                            !.idx = @ + 1]
    ELSE [s EXCEPT !.index = @ + 1, !.idx = @ + 1]

\* STATE_HEADER_VALUE_START, multipart.py:356-363
StepHeaderValueStart(s, ch) ==
    IF ch # SPACE
    THEN [s EXCEPT !.hvp = s.idx, !.state = STATE_HEADER_VALUE]
    ELSE [s EXCEPT !.idx = @ + 1]

\* STATE_HEADER_VALUE, multipart.py:365-374
StepHeaderValue(s, ch, data, base) ==
    IF ch = CR
    THEN LET s1 == IF s.hvp # -1
                   THEN [Emit(s, "header_value", data, s.hvp, s.idx, base)
                            EXCEPT !.hvp = -1]
                   ELSE s
         IN [Notify(s1, "header_end") EXCEPT
                !.state = STATE_HEADER_VALUE_ALMOST_DONE, !.idx = @ + 1]
    ELSE [s EXCEPT !.idx = @ + 1]

\* a variant that takes any byte for the LF that ends a header line
StepHeaderValueAlmostDone_AnyByte(s, ch) ==
    [s EXCEPT !.state = STATE_HEADER_FIELD_START, !.idx = @ + 1]

\* STATE_HEADER_VALUE_ALMOST_DONE, multipart.py:376-384
StepHeaderValueAlmostDone(s, ch) ==
    IF ch # LF THEN Raise(s, "ValueError")
    ELSE [s EXCEPT !.state = STATE_HEADER_FIELD_START, !.idx = @ + 1]

\* STATE_HEADERS_ALMOST_DONE, multipart.py:386-396
StepHeadersAlmostDone(s, ch) ==
    IF ch # LF THEN Raise(s, "ValueError")
    ELSE [Notify(s, "headers_finished") EXCEPT
             !.pdp = s.idx + 1, !.state = STATE_PART_DATA, !.idx = @ + 1]

\* a variant that does not send the data before a candidate delimiter
MatchBoundary_NoFlush(s, ch, data, bnd, base) ==
    LET boundary_len == Len(bnd)
        s0 == [s EXCEPT !.cont = FALSE]
    IN
    IF s0.index < boundary_len
    THEN IF bnd[s0.index + 1] = ch
         THEN [s0 EXCEPT !.index = @ + 1]
         ELSE [s0 EXCEPT !.index = 0]
    ELSE IF s0.index = boundary_len
    THEN IF ch = CR
         THEN [s0 EXCEPT !.index = @ + 1,
                         !.flags = SetFlag(@, FLAG_PART_BOUNDARY)]
         ELSE IF ch = HYPHEN
         THEN [s0 EXCEPT !.index = @ + 1,
                         !.flags = SetFlag(@, FLAG_LAST_BOUNDARY)]
         ELSE [s0 EXCEPT !.index = 0]
    ELSE IF s0.index = boundary_len + 1
    THEN IF HasFlag(s0.flags, FLAG_PART_BOUNDARY)
         THEN IF ch = LF
              THEN [Notify(Notify(s0, "part_end"), "part_begin") EXCEPT
                       !.flags = ClearFlag(@, FLAG_PART_BOUNDARY),
                       !.index = 0,
                       !.state = STATE_HEADER_FIELD_START,
                       !.idx = @ + 1,
                       !.cont = TRUE]
              ELSE [s0 EXCEPT !.index = 0,
                              !.flags = ClearFlag(@, FLAG_PART_BOUNDARY)]
         ELSE IF HasFlag(s0.flags, FLAG_LAST_BOUNDARY)
         THEN IF ch = HYPHEN
              THEN [Notify(Notify(s0, "part_end"), "end") EXCEPT
                       !.state = STATE_END]
              ELSE [s0 EXCEPT !.index = 0]
         ELSE s0
    ELSE s0

\* a variant that reports the end of the message and goes on scanning part
\* data
MatchBoundary_NoEndState(s, ch, data, bnd, base) ==
    LET boundary_len == Len(bnd)
        s0 == [s EXCEPT !.cont = FALSE]
    IN
    IF s0.index < boundary_len
    THEN IF bnd[s0.index + 1] = ch
         THEN LET s1 == IF s0.index = 0 /\ s0.pdp # -1
                        THEN [Emit(s0, "part_data", data, s0.pdp, s0.idx, base)
                                 EXCEPT !.pdp = -1]
                        ELSE s0
              IN [s1 EXCEPT !.index = @ + 1]
         ELSE [s0 EXCEPT !.index = 0]
    ELSE IF s0.index = boundary_len
    THEN IF ch = CR
         THEN [s0 EXCEPT !.index = @ + 1,
                         !.flags = SetFlag(@, FLAG_PART_BOUNDARY)]
         ELSE IF ch = HYPHEN
         THEN [s0 EXCEPT !.index = @ + 1,
                         !.flags = SetFlag(@, FLAG_LAST_BOUNDARY)]
         ELSE [s0 EXCEPT !.index = 0]
    ELSE IF s0.index = boundary_len + 1
    THEN IF HasFlag(s0.flags, FLAG_PART_BOUNDARY)
         THEN IF ch = LF
              THEN [Notify(Notify(s0, "part_end"), "part_begin") EXCEPT
                       !.flags = ClearFlag(@, FLAG_PART_BOUNDARY),
                       !.index = 0,
                       !.state = STATE_HEADER_FIELD_START,
                       !.idx = @ + 1,
                       !.cont = TRUE]
              ELSE [s0 EXCEPT !.index = 0,
                              !.flags = ClearFlag(@, FLAG_PART_BOUNDARY)]
         ELSE IF HasFlag(s0.flags, FLAG_LAST_BOUNDARY)
         THEN IF ch = HYPHEN
              THEN Notify(Notify(s0, "part_end"), "end")
              ELSE [s0 EXCEPT !.index = 0]
         ELSE s0
    ELSE s0

\* a variant that takes the delimiter and one hyphen for the terminal
\* boundary
MatchBoundary_OneHyphenEnds(s, ch, data, bnd, base) ==
    LET boundary_len == Len(bnd)
        s0 == [s EXCEPT !.cont = FALSE]
    IN
    IF s0.index < boundary_len
    THEN IF bnd[s0.index + 1] = ch
         THEN LET s1 == IF s0.index = 0 /\ s0.pdp # -1
                        THEN [Emit(s0, "part_data", data, s0.pdp, s0.idx, base)
                                 EXCEPT !.pdp = -1]
                        ELSE s0
              IN [s1 EXCEPT !.index = @ + 1]
         ELSE [s0 EXCEPT !.index = 0]
    ELSE IF s0.index = boundary_len
    THEN IF ch = CR
         THEN [s0 EXCEPT !.index = @ + 1,
                         !.flags = SetFlag(@, FLAG_PART_BOUNDARY)]
         ELSE IF ch = HYPHEN
         THEN [s0 EXCEPT !.index = @ + 1,
                         !.flags = SetFlag(@, FLAG_LAST_BOUNDARY)]
         ELSE [s0 EXCEPT !.index = 0]
    ELSE IF s0.index = boundary_len + 1
    THEN IF HasFlag(s0.flags, FLAG_PART_BOUNDARY)
         THEN IF ch = LF
              THEN [Notify(Notify(s0, "part_end"), "part_begin") EXCEPT
                       !.flags = ClearFlag(@, FLAG_PART_BOUNDARY),
                       !.index = 0,
                       !.state = STATE_HEADER_FIELD_START,
                       !.idx = @ + 1,
                       !.cont = TRUE]
              ELSE [s0 EXCEPT !.index = 0,
                              !.flags = ClearFlag(@, FLAG_PART_BOUNDARY)]
         ELSE IF HasFlag(s0.flags, FLAG_LAST_BOUNDARY)
         THEN [Notify(Notify(s0, "part_end"), "end") EXCEPT
                  !.state = STATE_END]
         ELSE s0
    ELSE s0

\* the branch on index of STATE_PART_DATA, multipart.py:430-505; the result
\* has .cont set when the code leaves the iteration with `continue`
MatchBoundary(s, ch, data, bnd, base) ==
    LET boundary_len == Len(bnd)
        s0 == [s EXCEPT !.cont = FALSE]
    IN
    IF s0.index < boundary_len
    THEN IF bnd[s0.index + 1] = ch
         THEN LET s1 == IF s0.index = 0 /\ s0.pdp # -1
                        THEN [Emit(s0, "part_data", data, s0.pdp, s0.idx, base)
                                 EXCEPT !.pdp = -1]
                        ELSE s0
              IN [s1 EXCEPT !.index = @ + 1]
         ELSE [s0 EXCEPT !.index = 0]
    ELSE IF s0.index = boundary_len
    THEN IF ch = CR
         THEN [s0 EXCEPT !.index = @ + 1,
                         !.flags = SetFlag(@, FLAG_PART_BOUNDARY)]
         ELSE IF ch = HYPHEN
         THEN [s0 EXCEPT !.index = @ + 1,
                         !.flags = SetFlag(@, FLAG_LAST_BOUNDARY)]
         ELSE [s0 EXCEPT !.index = 0]
    ELSE IF s0.index = boundary_len + 1
    THEN IF HasFlag(s0.flags, FLAG_PART_BOUNDARY)
         THEN IF ch = LF
              THEN [Notify(Notify(s0, "part_end"), "part_begin") EXCEPT
                       !.flags = ClearFlag(@, FLAG_PART_BOUNDARY),
                       !.index = 0,
                       !.state = STATE_HEADER_FIELD_START,
                       !.idx = @ + 1,
                       !.cont = TRUE]
              ELSE [s0 EXCEPT !.index = 0,
                              !.flags = ClearFlag(@, FLAG_PART_BOUNDARY)]
         ELSE IF HasFlag(s0.flags, FLAG_LAST_BOUNDARY)
         THEN IF ch = HYPHEN
              THEN [Notify(Notify(s0, "part_end"), "end") EXCEPT
                       !.state = STATE_END]
              ELSE [s0 EXCEPT !.index = 0]
         ELSE s0
    ELSE s0

\* a variant that goes on with the byte after the one that failed
KeepOrReplay_SkipByte(s, ch, prev_index, base) ==
    IF s.index > 0
    THEN IF s.index - 1 < Len(s.lb)
         THEN [s EXCEPT !.lb = SetAt(@, s.index - 1, ch), !.idx = @ + 1]
         ELSE Raise(s, "IndexError")
    ELSE IF prev_index > 0
    THEN [Emit(s, "part_data", s.lb, 0, prev_index, -1) EXCEPT
             !.pdp = s.idx, !.idx = @ + 1,
             !.rs = [cand |-> base + s.idx - prev_index,
                     at |-> base + s.idx + 1, ev |-> Len(s.msgs) + 1]]
    ELSE [s EXCEPT !.idx = @ + 1]

\* the lookbehind bookkeeping that ends the iteration, multipart.py:507-529
KeepOrReplay(s, ch, prev_index, base) ==
    IF s.index > 0
    THEN IF s.index - 1 < Len(s.lb)
         THEN [s EXCEPT !.lb = SetAt(@, s.index - 1, ch), !.idx = @ + 1]
         ELSE Raise(s, "IndexError")
    ELSE IF prev_index > 0
    THEN [Emit(s, "part_data", s.lb, 0, prev_index, -1) EXCEPT
             !.pdp = s.idx,
             !.rs = [cand |-> base + s.idx - prev_index, at |-> base + s.idx,
                     ev |-> Len(s.msgs) + 1]]
    ELSE [s EXCEPT !.idx = @ + 1]

\* STATE_PART_DATA, multipart.py:398-529
StepPartData(s, data, data_len, token, base) ==
    LET bnd == FullBoundary(token)
        boundary_end == Len(bnd) - 1
        prev_index == s.index
        idx1 == IF s.index = 0
                THEN SkipSearch(s.idx + boundary_end, data, data_len, token)
                       - boundary_end
                ELSE s.idx
        rd1 == IF s.index = 0
               THEN Max(s.rd, base + 1 +
                         SkipRead(s.idx + boundary_end, data, data_len, token))
               ELSE s.rd
        ch == data[idx1 + 1]
        s1 == [s EXCEPT !.idx = idx1, !.rd = Max(rd1, base + idx1 + 1),
                        !.sk = @ \cup {base + i : i \in s.idx..(idx1 - 1)}]
        s2 == MatchBoundary(s1, ch, data, bnd, base)
    IN IF s2.cont THEN s2 ELSE KeepOrReplay(s2, ch, prev_index, base)

\* a variant that skips only CR before the opening boundary
StepStart_CROnly(s, ch) ==
    IF ch # CR
    THEN [s EXCEPT !.state = STATE_START_BOUNDARY]
    ELSE [s EXCEPT !.idx = @ + 1]

\* STATE_START, multipart.py:531-538
StepStart(s, ch) ==
    IF ~(ch = CR \/ ch = LF)
    THEN [s EXCEPT !.state = STATE_START_BOUNDARY]
    ELSE [s EXCEPT !.idx = @ + 1]

\* one iteration of `while idx < data_len`, multipart.py:296-548
MPStep(s, data, data_len, token, base) ==
    LET ch == data[s.idx + 1]
        s0 == [s EXCEPT !.rd = Max(@, base + s.idx + 1)]
    IN
    IF s.state = STATE_START_BOUNDARY
        THEN StepStartBoundary(s0, ch, FullBoundary(token))
    ELSE IF s.state = STATE_HEADER_FIELD_START THEN StepHeaderFieldStart(s0)
    ELSE IF s.state = STATE_HEADER_FIELD
        THEN StepHeaderField(s0, ch, data, base)
    ELSE IF s.state = STATE_HEADER_VALUE_START THEN StepHeaderValueStart(s0, ch)
    ELSE IF s.state = STATE_HEADER_VALUE
        THEN StepHeaderValue(s0, ch, data, base)
    ELSE IF s.state = STATE_HEADER_VALUE_ALMOST_DONE
        THEN StepHeaderValueAlmostDone(s0, ch)
    ELSE IF s.state = STATE_HEADERS_ALMOST_DONE
        THEN StepHeadersAlmostDone(s0, ch)
    ELSE IF s.state = STATE_PART_DATA
        THEN StepPartData(s0, data, data_len, token, base)
    ELSE IF s.state = STATE_START THEN StepStart(s0, ch)
    ELSE IF s.state = STATE_END THEN [s0 EXCEPT !.idx = @ + 1]
    ELSE Raise(s0, "ValueError")

RECURSIVE MPLoop(_, _, _, _, _)
MPLoop(s, data, data_len, token, base) ==
    IF s.err # "none" \/ ~(s.idx < data_len) THEN s
    ELSE MPLoop(MPStep(s, data, data_len, token, base),
                data, data_len, token, base)

\* a variant that emits the open header slices and keeps their marks where
\* they were
MPFlush_KeepMarks(s, data, data_len, base) ==
    LET s1 == IF s.hfp # -1
              THEN Emit(s, "header_field", data, s.hfp, data_len, base)
              ELSE s
        s2 == IF s1.hvp # -1
              THEN Emit(s1, "header_value", data, s1.hvp, data_len, base)
              ELSE s1
    IN IF s2.pdp # -1
       THEN [Emit(s2, "part_data", data, s2.pdp, data_len, base)
                EXCEPT !.pdp = 0]
       ELSE s2

\* the flushes that end write(), multipart.py:550-560
MPFlush(s, data, data_len, base) ==
    LET s1 == IF s.hfp # -1
              THEN [Emit(s, "header_field", data, s.hfp, data_len, base)
                       EXCEPT !.hfp = 0]
              ELSE s
        s2 == IF s1.hvp # -1
              THEN [Emit(s1, "header_value", data, s1.hvp, data_len, base)
                       EXCEPT !.hvp = 0]
              ELSE s1
    IN IF s2.pdp # -1
       THEN [Emit(s2, "part_data", data, s2.pdp, data_len, base)
                EXCEPT !.pdp = 0]
       ELSE s2

\* a variant that takes a zero-length chunk for the end of the stream
MPWrite_EmptyEndsStream(p, data, token, base) ==
    IF data = <<>>
    THEN [p EXCEPT !.msgs = Append(@, <<"end", <<>>>>), !.state = STATE_END]
    ELSE
    LET data_len == prune_data(Len(data), p.cursize, p.max_size)
        s == [idx |-> 0, index |-> p.index, state |-> p.state,
              flags |-> p.flags, hfp |-> p.hfp, hvp |-> p.hvp, pdp |-> p.pdp,
              lb |-> p.lb, msgs |-> p.msgs, err |-> "none", cont |-> FALSE,
              rd |-> p.rd, se |-> p.se, rs |-> p.rs, sk |-> p.sk]
        r == MPLoop(s, data, data_len, token, base)
        f == MPFlush(r, data, data_len, base)
    IN IF r.err # "none"
       THEN [p EXCEPT !.hfp = r.hfp, !.hvp = r.hvp, !.pdp = r.pdp,
                      !.lb = r.lb, !.msgs = r.msgs, !.err = r.err,
                      !.rd = r.rd, !.se = r.se, !.rs = r.rs, !.sk = r.sk]
       ELSE [p EXCEPT !.hfp = f.hfp, !.hvp = f.hvp, !.pdp = f.pdp,
                      !.lb = f.lb, !.msgs = f.msgs,
                      !.index = f.index, !.state = f.state, !.flags = f.flags,
                      !.cursize = @ + data_len,
                      !.rd = f.rd, !.se = f.se, !.rs = f.rs, !.sk = f.sk]

\* MultipartParser.write(data) on parser p, multipart.py:286-565.  p holds
\* the attributes of self, the sink's messages and the history values; when
\* the loop raises, the locals index, state and flags are not stored back
\* and cursize is not advanced.
MPWrite(p, data, token, base) ==
    LET data_len == prune_data(Len(data), p.cursize, p.max_size)
        s == [idx |-> 0, index |-> p.index, state |-> p.state,
              flags |-> p.flags, hfp |-> p.hfp, hvp |-> p.hvp, pdp |-> p.pdp,
              lb |-> p.lb, msgs |-> p.msgs, err |-> "none", cont |-> FALSE,
              rd |-> p.rd, se |-> p.se, rs |-> p.rs, sk |-> p.sk]
        r == MPLoop(s, data, data_len, token, base)
        f == MPFlush(r, data, data_len, base)
    IN IF r.err # "none"
       THEN [p EXCEPT !.hfp = r.hfp, !.hvp = r.hvp, !.pdp = r.pdp,
                      !.lb = r.lb, !.msgs = r.msgs, !.err = r.err,
                      !.rd = r.rd, !.se = r.se, !.rs = r.rs, !.sk = r.sk]
       ELSE [p EXCEPT !.hfp = f.hfp, !.hvp = f.hvp, !.pdp = f.pdp,
                      !.lb = f.lb, !.msgs = f.msgs,
                      !.index = f.index, !.state = f.state, !.flags = f.flags,
                      !.cursize = @ + data_len,
                      !.rd = f.rd, !.se = f.se, !.rs = f.rs, !.sk = f.sk]

\* params.get('boundary') when the content type has no boundary parameter,
\* forms.py:115: None, which is no byte string
NoBoundary == <<-1>>

\* a variant that takes a missing boundary for an empty token
MPNew_EmptyToken(token, max) ==
    [cursize |-> 0, max_size |-> max, state |-> STATE_START, index |-> 0,
     flags |-> 0, hfp |-> -1, hvp |-> -1, pdp |-> -1,
     lb |-> InitLookbehind(IF token = NoBoundary THEN <<>> ELSE token),
     msgs |-> <<>>, err |-> "none", rd |-> 0, se |-> 0,
     rs |-> NoResume, sk |-> {}]

\* MultipartParser.__init__, multipart.py:261-284: b'\r\n--' + boundary
\* raises TypeError when boundary is None, after the attributes before it
\* have been set and before boundary, boundary_chars and lookbehind are
MPNew(token, max) ==
    [cursize |-> 0, max_size |-> max, state |-> STATE_START, index |-> 0,
     flags |-> 0, hfp |-> -1, hvp |-> -1, pdp |-> -1,
     lb |-> IF token = NoBoundary THEN <<>> ELSE InitLookbehind(token),
     msgs |-> <<>>,
     err |-> IF token = NoBoundary THEN "TypeError" ELSE "none",
     rd |-> 0, se |-> 0,
     rs |-> NoResume, sk |-> {}]

\* a variant that refuses a second call
MPFinalizeOp_Once(p) ==
    IF finalized THEN [p EXCEPT !.err = "RuntimeError"] ELSE p

\* a variant that delivers the bytes held for an unconfirmed candidate
MPFinalizeOp_Flushing(p) ==
    IF p.state = STATE_PART_DATA /\ p.index > 0
    THEN [Emit(p, "part_data", p.lb, 0, p.index, -1) EXCEPT !.index = 0]
    ELSE p

\* a variant that raises unless the terminal boundary was seen
MPFinalizeOp_Validating(p) ==
    IF p.state # STATE_END THEN [p EXCEPT !.err = "ValueError"] ELSE p

\* BaseParser.finalize, multipart.py:61-62, inherited by MultipartParser
MPFinalizeOp(p) == p

\* the parser object held in the variables
Self == [cursize |-> cursize, max_size |-> max_size, state |-> state,
         index |-> index, flags |-> flags, hfp |-> header_field_pos,
         hvp |-> header_value_pos, pdp |-> part_data_pos, lb |-> lookbehind,
         msgs |-> messages, err |-> raised, rd |-> readEnd, se |-> sliceEnd,
         rs |-> resume, sk |-> skipped]

----------------------------------------------------------------------------
(* The multipart sink, forms.py:106-183.  The model abbreviates the header   *)
(* names: "d" stands for b'content-disposition' and "t" for                  *)
(* b'content-type'; in a disposition value the byte "n" stands for the       *)
(* option name="n" and the byte "f" for the option filename="f".             *)

ContentDisposition == <<100>>
ContentType == <<116>>

\* bytes.lower()
Lower(bs) == [i \in 1..Len(bs) |-> IF bs[i] >= 65 /\ bs[i] <= 90
                                    THEN bs[i] + 32 ELSE bs[i]]

\* a dict as a sequence of <<key, value>> in insertion order
DictHas(dict, key) == \E i \in 1..Len(dict) : dict[i][1] = key
DictGet(dict, key) == dict[CHOOSE i \in 1..Len(dict) : dict[i][1] = key][2]
DictSet(dict, key, val) ==
    IF DictHas(dict, key)
    THEN [i \in 1..Len(dict) |-> IF dict[i][1] = key THEN <<key, val>> ELSE dict[i]]
    ELSE Append(dict, <<key, val>>)

\* the options of cgi.parse_header(value) under the abbreviation above
HasByte(bs, b) == \E i \in 1..Len(bs) : bs[i] = b
parse_header(value) ==
    (IF HasByte(value, 110) THEN {<<"name", <<110>>>>} ELSE {})
      \cup (IF HasByte(value, 102) THEN {<<"filename", <<102>>>>} ELSE {})
HasOption(options, key) == \E o \in options : o[1] = key
Option(options, key) == (CHOOSE o \in options : o[1] = key)[2]

NoFile == [open |-> FALSE]

\* the parse option upload_to: None, or the path given by the caller
NoUpload == ""
UploadPath == "uploads"

\* event HEADERS_FINISHED, forms.py:137-145: open(upload_to, 'a') is a text
\* file in append mode, SpooledTemporaryFile(file_memory_limit) a binary one
\* in mode 'w+b'
SinkHeadersFinished(a) ==
    IF ~DictHas(a.headers, ContentDisposition) THEN [a EXCEPT !.exc = "KeyError"]
    ELSE LET options == parse_header(DictGet(a.headers, ContentDisposition)) IN
         IF ~HasOption(options, "name") THEN [a EXCEPT !.exc = "KeyError"]
         ELSE IF HasOption(options, "filename")
         THEN LET f == [open |-> TRUE, content |-> <<>>, position |-> 0,
                        mode |-> IF a.upload_to # NoUpload THEN "a" ELSE "w+b",
                        target |-> a.upload_to,
                        filename |-> Option(options, "filename"),
                        content_type |-> <<>>]
              IN IF DictHas(a.headers, ContentType)
                 THEN [a EXCEPT !.name = Option(options, "name"),
                                !.opened = @ + 1,
                                !.fileobj = [f EXCEPT !.content_type =
                                               DictGet(a.headers, ContentType)]]
                 ELSE [a EXCEPT !.name = Option(options, "name"),
                                !.opened = @ + 1,
                                !.fileobj = f,
                                !.exc = "KeyError"]
         ELSE [a EXCEPT !.name = Option(options, "name")]

\* the modes of the interpreter: bytes.decode looks its codec up for empty
\* input only in the Python Development Mode (and in debug builds)
DevModes == BOOLEAN

\* event PART_END, forms.py:153-160: for a part without a file the loop
\* variable data (b"" for this event) is decoded with the codec named
\* 'charset', which Python does not know: the decoding of the empty input
\* gives '' in the default mode and raises LookupError in development mode
SinkPartEnd(a, dev) ==
    IF ~a.fileobj.open
    THEN IF dev THEN [a EXCEPT !.exc = "LookupError"]
         ELSE [a EXCEPT !.items = Append(@, <<a.name, <<>>>>),
                        !.value = <<>>, !.fileobj = NoFile]
    ELSE [a EXCEPT !.items = Append(@, <<a.name,
                                         [a.fileobj EXCEPT !.position = 0]>>),
                   !.value = <<>>, !.fileobj = NoFile]

\* the loop over self.messages, forms.py:129-160
RECURSIVE SinkLoop(_, _, _)
SinkLoop(msgs, a, dev) ==
    IF msgs = <<>> \/ a.exc # "none" THEN a
    ELSE LET ev == Head(msgs)[1]
             data == Head(msgs)[2]
             b == IF ev = "header_field"
                    THEN [a EXCEPT !.header_name = @ \o data]
                  ELSE IF ev = "header_value"
                    THEN [a EXCEPT !.header_value = @ \o data]
                  ELSE IF ev = "header_end"
                    THEN [a EXCEPT !.headers = DictSet(@, Lower(a.header_name),
                                                       a.header_value),
                                   !.header_name = <<>>, !.header_value = <<>>]
                  ELSE IF ev = "headers_finished" THEN SinkHeadersFinished(a)
                  ELSE IF ev = "part_begin" THEN [a EXCEPT !.headers = <<>>]
                  ELSE IF ev = "part_data"
                    THEN IF ~a.fileobj.open
                         THEN [a EXCEPT !.value = @ \o data]
                         ELSE IF a.fileobj.mode = "a"
                         THEN [a EXCEPT !.exc = "TypeError"]
                         ELSE [a EXCEPT !.fileobj.content = @ \o data,
                                        !.fileobj.position = @ + Len(data)]
                  ELSE IF ev = "part_end" THEN SinkPartEnd(a, dev)
                  ELSE a
         IN SinkLoop(Tail(msgs), b, dev)

\* MultipartParser.parse after the stream has ended, forms.py:122-162: the
\* items of the returned MultiDict, or the exception raised
SinkMP(msgs, dev, upload_to) ==
    SinkLoop(msgs, [items |-> <<>>, headers |-> <<>>, header_name |-> <<>>,
                    header_value |-> <<>>, name |-> <<>>, value |-> <<>>,
                    fileobj |-> NoFile, opened |-> 0, exc |-> "none",
                    upload_to |-> upload_to], dev)

----------------------------------------------------------------------------
(* The bodies the transport may deliver to a MultipartParser *)

\* a body stream yields at most this many zero-length chunks
MaxEmptyWrites == 1

CRLF == <<CR, LF>>
Dashes == <<HYPHEN, HYPHEN>>

\* the boundary tokens: "X"
Tokens == {<<88>>}

\* the opening boundary line, a delimiter, the terminal boundary
Opening(tok) == Dashes \o tok \o CRLF
Delimiter(tok) == CRLF \o Dashes \o tok
Terminal(tok) == Delimiter(tok) \o Dashes

\* part data is made of at most this many pieces
MaxPieces == 2

\* the pieces: "a", CR, LF, "-" and a whole delimiter
Pieces(tok) == {<<97>>, <<CR>>, <<LF>>, <<HYPHEN>>, Delimiter(tok)}

RECURSIVE PieceSeqs(_, _)
PieceSeqs(tok, n) ==
    IF n = 0 THEN {<<>>}
    ELSE PieceSeqs(tok, n - 1)
           \cup {d \o p : d \in PieceSeqs(tok, n - 1), p \in Pieces(tok)}

\* header blocks: header names "D" (standing for Content-Disposition) and
\* "T" (Content-Type), the disposition values "n" (a name option) and "nf"
\* (a name and a filename option)
HdrNone == CRLF
HdrField == <<68, COLON, 110>> \o CRLF \o CRLF
HdrSpaced == <<68, COLON, SPACE, 110>> \o CRLF \o CRLF
HdrFile == <<68, COLON, 110, 102>> \o CRLF \o <<84, COLON, 116>> \o CRLF \o CRLF
\* a header line without a colon: CR after one and two bytes of the name
HdrNoColon1 == <<100>> \o CRLF
HdrNoColon2 == <<100, 100>> \o CRLF
\* as many name bytes as the delimiter has, and two more, then the blank line
HdrNoColon5 == <<100, 100, 100, 100, 100>> \o CRLF \o CRLF
HdrNoColon7 == <<100, 100, 100, 100, 100, 100, 100>> \o CRLF \o CRLF
\* a zero-length header name, and a header value ended by CR without LF
HdrEmptyName == <<COLON, 110>> \o CRLF \o CRLF
HdrBadEnd == <<68, COLON, 110, CR, 97>> \o CRLF

\* a name and a value of more than one byte, the value after two spaces, and
\* an empty value
HdrLong == <<68, 68, 68, COLON, SPACE, SPACE, 110, 110>> \o CRLF
             \o <<84, COLON>> \o CRLF \o CRLF

HeaderBlocks ==
    {HdrNone, HdrField, HdrSpaced, HdrFile, HdrNoColon1, HdrNoColon2,
     HdrEmptyName, HdrBadEnd}

\* more name bytes than lookbehind has positions (the token's length + 8)
HdrNoColon10 ==
    <<100, 100, 100, 100, 100, 100, 100, 100, 100, 100>> \o CRLF \o CRLF

LongHeaderBlocks == {HdrNoColon5, HdrNoColon7, HdrNoColon10}

\* bodies that exercise the boundary matcher: no headers, all part data
DataBodies(tok) ==
    { Opening(tok) \o HdrNone \o d \o Terminal(tok) :
        d \in PieceSeqs(tok, MaxPieces) }

\* forms of two parts, the second one "b"
TwoPartBodies(tok) ==
    { Opening(tok) \o HdrNone \o d \o Delimiter(tok) \o CRLF
         \o HdrNone \o <<98>> \o Terminal(tok) :
        d \in {<<>>, <<97>>, <<CR>>, Delimiter(tok) \o <<HYPHEN>>} }

\* streams that end before the terminal boundary is complete
CutBodies(tok) ==
    { Opening(tok) \o HdrNone \o <<97>> \o t :
        t \in {<<>>, <<CR>>, Delimiter(tok), Delimiter(tok) \o <<HYPHEN>>,
               Delimiter(tok) \o <<CR>>} }

\* bodies that exercise the header sub-machine
HeaderBodies(tok) ==
    { Opening(tok) \o h \o d \o Terminal(tok) :
        h \in HeaderBlocks, d \in {<<>>, <<97>>, <<LF>>} }

\* leading newlines, a wrong opening boundary
OtherBodies(tok) ==
    { CRLF \o Opening(tok) \o HdrNone \o <<97>> \o Terminal(tok),
      Dashes \o <<97>> \o CRLF \o HdrNone \o <<97>> \o Terminal(tok) }

\* bodies with a wrong byte where a literal is due: in the opening
\* boundary line, after the CR of a header value, after the CR that starts
\* the blank line, in the first part and in the second; a second header
\* line that starts with ':'
BadLiteralBodies(tok) ==
    { Dashes \o tok \o <<97>> \o CRLF \o <<97>>,
      Dashes \o tok \o <<CR, 97, 97>>,
      <<HYPHEN, 97>> \o tok \o CRLF,
      Opening(tok) \o <<CR, 97, 97>>,
      Opening(tok) \o <<68, COLON, 110>> \o CRLF \o <<CR, 97, 97>>,
      Opening(tok) \o <<68, COLON, 110, CR, CR, LF>>,
      Opening(tok) \o <<68, COLON, 110>> \o CRLF \o <<COLON, 110>> \o CRLF,
      Opening(tok) \o HdrNone \o <<97>> \o Delimiter(tok) \o CRLF
         \o <<68, COLON, CR, 97, LF>> }

\* bodies with bytes after the terminal boundary: an epilogue, a second
\* terminal boundary, a part delimiter with the start of a header
TrailingBodies(tok) ==
    { Opening(tok) \o HdrNone \o <<97>> \o Terminal(tok) \o t :
        t \in {CRLF, <<97, 97>>, Terminal(tok),
               Delimiter(tok) \o CRLF \o <<68>>} }

\* part data that the skip search can stride over is a run of at most this
\* many bytes
MaxRun == 7

\* n bytes "a"
Run(n) == [i \in 1..n |-> 97]

\* bodies that exercise the skip search: a run of bytes that are not in the
\* delimiter before the terminal boundary, under every alignment of the
\* boundary with the stride; a run with a hyphen or a CR in it; a run before
\* a part delimiter
SkipBodies(tok) ==
    { Opening(tok) \o HdrNone \o Run(n) \o Terminal(tok) : n \in 3..MaxRun }
      \cup { Opening(tok) \o HdrNone \o Run(4) \o <<c>> \o Run(4)
                 \o Terminal(tok) : c \in {HYPHEN, CR} }
      \cup { Opening(tok) \o HdrNone \o Run(5) \o Delimiter(tok) \o CRLF
                 \o HdrNone \o Terminal(tok) }

\* at most this many newline bytes come before the opening boundary
MaxLead == 2

\* the runs of CR and LF bytes of at most n bytes
RECURSIVE Leads(_)
Leads(n) ==
    IF n = 0 THEN {<<>>}
    ELSE Leads(n - 1) \cup { l \o <<c>> : l \in Leads(n - 1), c \in {CR, LF} }

\* newline bytes before a part, before a wrong first byte, before a wrong
\* byte in the opening boundary and before the end of the stream
LeadBodies(tok) ==
    { l \o t : l \in Leads(MaxLead) \ {<<>>},
               t \in { Opening(tok) \o HdrNone \o <<97>> \o Terminal(tok),
                       <<97>>,
                       Dashes \o <<LF>> \o tok \o CRLF,
                       <<>> } }

MPBodies(tok) ==
    LeadBodies(tok) \cup DataBodies(tok) \cup TwoPartBodies(tok) \cup CutBodies(tok)
      \cup HeaderBodies(tok) \cup OtherBodies(tok)
      \cup BadLiteralBodies(tok) \cup TrailingBodies(tok)
      \cup {Opening(tok) \o HdrLong \o Terminal(tok)}
      \cup SkipBodies(tok)

\* bodies that are parsed under every max_size up to their length: a field
\* part and a file part, each followed by the start of a second part
SizedBodies(tok) ==
    { Opening(tok) \o HdrField \o <<97>> \o Delimiter(tok) \o CRLF \o <<68>>,
      Opening(tok) \o HdrFile \o <<97>> \o Delimiter(tok) \o CRLF \o <<68>> }

\* bodies that are fed in chunks of one size, as the tests' feed() does
\* (test_formdata.py:132-135): header lines without a colon before a part
\* that the wire format delimits, a form of a field and a file, and a file
\* part followed by a header line that starts with ':'
FedBodies(tok) ==
    { Opening(tok) \o h \o d \o Terminal(tok) :
        h \in LongHeaderBlocks \cup {HdrNoColon1 \o CRLF, HdrField},
        d \in {<<>>, <<97>>} }
      \cup { Opening(tok) \o HdrField \o <<97>> \o Delimiter(tok) \o CRLF
                \o HdrFile \o <<98>> \o Terminal(tok),
              Opening(tok) \o HdrFile \o <<97>> \o Delimiter(tok) \o CRLF
                \o <<COLON>> }

\* feed() writes chunks of at most this many bytes (5 in the tests)
MaxFeed == 5

\* (body, max_size, feed_size) as given to the parser and to the transport;
\* max_size 0 is "unbounded", feed_size 0 is "chunks of any size"
MPInputs(tok) ==
    { <<b, 0, 0>> : b \in MPBodies(tok) }
      \cup UNION { { <<b, m, 0>> : m \in 1..Len(b) } : b \in SizedBodies(tok) }
      \cup { <<b, 0, k>> : b \in FedBodies(tok), k \in 1..MaxFeed }

----------------------------------------------------------------------------
(* The multipart specification: construction, write(), finalize() *)

SetSelf(p) ==
    /\ cursize' = p.cursize
    /\ state' = p.state
    /\ index' = p.index
    /\ flags' = p.flags
    /\ header_field_pos' = p.hfp
    /\ header_value_pos' = p.hvp
    /\ part_data_pos' = p.pdp
    /\ lookbehind' = p.lb
    /\ messages' = p.msgs
    /\ raised' = p.err
    /\ readEnd' = p.rd
    /\ sliceEnd' = p.se
    /\ resume' = p.rs
    /\ skipped' = p.sk

\* the token the client framed the body with
BodyToken(b) == IF b = NoBoundary THEN <<88>> ELSE b

\* MultipartParser.parse up to the construction of the scanner,
\* forms.py:114-118
InitMP ==
    /\ kind = "mp"
    /\ AppIdle
    /\ boundary \in Tokens \cup {NoBoundary}
    /\ \E inp \in MPInputs(BodyToken(boundary)) :
          /\ body = inp[1]
          /\ max_size = inp[2]
          /\ feed_size = inp[3]
    /\ fields = <<>>
    /\ pos = 0
    /\ cursize = MPNew(boundary, max_size).cursize
    /\ state = MPNew(boundary, max_size).state
    /\ index = MPNew(boundary, max_size).index
    /\ flags = MPNew(boundary, max_size).flags
    /\ header_field_pos = MPNew(boundary, max_size).hfp
    /\ header_value_pos = MPNew(boundary, max_size).hvp
    /\ part_data_pos = MPNew(boundary, max_size).pdp
    /\ lookbehind = MPNew(boundary, max_size).lb
    /\ messages = MPNew(boundary, max_size).msgs
    /\ raised = MPNew(boundary, max_size).err
    /\ finalized = FALSE
    /\ empties = 0
    /\ readEnd = 0
    /\ sliceEnd = 0
    /\ resume = NoResume
    /\ skipped = {}
    /\ finalizes = 0

\* the orchestrator hands the next n bytes of the body to write()
MPWriteChunk ==
    /\ kind = "mp"
    /\ ~finalized
    /\ raised = "none"
    /\ \E n \in 0..(Len(body) - pos) :
          /\ n = 0 => empties < MaxEmptyWrites
          /\ feed_size > 0 => n = Min(feed_size, Len(body) - pos) /\ n > 0
          /\ SetSelf(MPWrite(Self, SubSeq(body, pos + 1, pos + n), boundary, pos))
          /\ pos' = pos + n
          /\ empties' = IF n = 0 THEN empties + 1 ELSE empties
    /\ UNCHANGED <<kind, body, boundary, max_size, finalized, feed_size, fields,
                   finalizes>>
    /\ UNCHANGED appvars

\* finalize() is called at most this many times on one scanner (twice in
\* the tests: by feed() and by the test itself)
MaxFinalizes == 2

\* the orchestrator calls parser.finalize(), also after a write() that
\* raised and also a second time (test_formdata.py:108-113, 132-135); there
\* is no parser to finalize when the constructor raised
MPFinalize ==
    /\ kind = "mp"
    /\ boundary # NoBoundary
    /\ finalizes < MaxFinalizes
    /\ finalized' = TRUE
    /\ finalizes' = finalizes + 1
    /\ SetSelf(MPFinalizeOp(Self))
    /\ UNCHANGED <<kind, body, pos, boundary, max_size, empties, feed_size,
                   fields>>
    /\ UNCHANGED appvars

\* a variant that runs the sink's loop also after write() raised
MPParseResult_Partial(dev) ==
    [items |-> SinkMP(messages, dev, NoUpload).items,
     exc |-> IF raised # "none" THEN raised
             ELSE SinkMP(messages, dev, NoUpload).exc]

\* what MultipartParser.parse gives its caller when no upload_to is given,
\* forms.py:109-162: an exception of write() propagates, otherwise the
\* sink's loop runs
MPParseResult(dev) ==
    IF raised # "none" THEN [items |-> <<>>, exc |-> raised]
    ELSE [items |-> SinkMP(messages, dev, NoUpload).items,
          exc |-> SinkMP(messages, dev, NoUpload).exc]

NextMP == MPWriteChunk \/ MPFinalize

SpecMP == InitMP /\ [][NextMP]_vars

----------------------------------------------------------------------------
(* Urlencoded bodies *)

\* raw bodies are made of "a", "=", "&" and ";"
QSBytes == {97, EQUAL, AMPERSAND, SEMICOLON}

\* raw bodies have at most this many bytes
QSMaxLen == 4

RECURSIVE QSBodies(_)
QSBodies(n) ==
    IF n = 0 THEN {<<>>}
    ELSE QSBodies(n - 1)
           \cup {b \o <<c>> : b \in {x \in QSBodies(n - 1) : Len(x) = n - 1},
                              c \in QSBytes}

\* names and values a client encodes: "", "a", " ", "&", "=", ";", "%", "+"
\* and "%41"
FieldTexts ==
    {<<>>, <<97>>, <<SPACE>>, <<AMPERSAND>>, <<EQUAL>>, <<SEMICOLON>>,
     <<37>>, <<43>>, <<37, 52, 49>>}

ShortTexts == {<<>>, <<97>>, <<SPACE>>, <<AMPERSAND>>}

TinyTexts == {<<>>, <<97>>}

\* lists of one pair, and lists of two pairs (names may repeat)
OnePairLists == {<<<<n, v>>>> : n \in FieldTexts, v \in FieldTexts}

TwoPairLists(T) == {<<<<n, v>>, <<m, w>>>> : n \in T, v \in T, m \in T, w \in T}

\* (body, max_size, feed_size, fields): raw bodies under every max_size,
\* the encodings of field lists fed in chunks of one size or of any size
QSInputs ==
    UNION { { <<b, m, 0, <<>>>> : m \in 0..Len(b) } : b \in QSBodies(QSMaxLen) }
      \cup { <<urlencode(f), 0, k, f>> :
               f \in OnePairLists \cup TwoPairLists(ShortTexts), k \in 1..MaxFeed }
      \cup { <<urlencode(f), 0, 0, f>> :
               f \in OnePairLists \cup TwoPairLists(TinyTexts) }

----------------------------------------------------------------------------
(* The urlencoded specification: construction, write(), finalize() *)

InitQS ==
    /\ kind = "qs"
    /\ AppIdle
    /\ boundary = <<>>
    /\ \E inp \in QSInputs :
          /\ body = inp[1]
          /\ max_size = inp[2]
          /\ feed_size = inp[3]
          /\ fields = inp[4]
    /\ pos = 0
    /\ cursize = 0
    /\ state = STATE_BEFORE_FIELD
    /\ index = 0
    /\ flags = 0
    /\ header_field_pos = -1
    /\ header_value_pos = -1
    /\ part_data_pos = -1
    /\ lookbehind = <<>>
    /\ messages = <<>>
    /\ raised = "none"
    /\ finalized = FALSE
    /\ empties = 0
    /\ readEnd = 0
    /\ sliceEnd = 0
    /\ resume = NoResume
    /\ skipped = {}
    /\ finalizes = 0

\* the orchestrator hands the next n bytes of the body to write(),
\* forms.py:69-70
QSWriteChunk ==
    /\ kind = "qs"
    /\ ~finalized
    /\ \E n \in 0..(Len(body) - pos) :
          /\ n = 0 => empties < MaxEmptyWrites
          /\ feed_size > 0 => n = Min(feed_size, Len(body) - pos) /\ n > 0
          /\ SetSelf(QSWrite(Self, SubSeq(body, pos + 1, pos + n), pos))
          /\ pos' = pos + n
          /\ empties' = IF n = 0 THEN empties + 1 ELSE empties
    /\ UNCHANGED <<kind, body, boundary, max_size, finalized, feed_size, fields,
                   finalizes>>
    /\ UNCHANGED appvars

\* the orchestrator calls parser.finalize(), forms.py:72
QSFinalize ==
    /\ kind = "qs"
    /\ ~finalized
    /\ finalized' = TRUE
    /\ finalizes' = finalizes + 1
    /\ SetSelf(QSFinalizeOp(Self))
    /\ UNCHANGED <<kind, body, pos, boundary, max_size, empties, feed_size,
                   fields>>
    /\ UNCHANGED appvars

\* what FormParser.parse gives its caller, forms.py:74-91
QSParseResult == SinkForm(messages)

NextQS == QSWriteChunk \/ QSFinalize

SpecQS == InitQS /\ [][NextQS]_vars

\* both scanners side by side
InitAll == InitMP \/ InitQS

NextAll == MPWriteChunk \/ MPFinalize \/ QSWriteChunk \/ QSFinalize

SpecAll == InitAll /\ [][NextAll]_vars

----------------------------------------------------------------------------
(* Observations of the event stream *)

\* the parts assembled from the events the way the sink accumulates them
\* (forms.py:129-160): header_field and header_value slices are
\* concatenated up to header_end, part_data slices up to part_end
RECURSIVE PartsFold(_, _)
PartsFold(msgs, a) ==
    IF msgs = <<>> THEN a
    ELSE LET ev == Head(msgs)[1]
             data == Head(msgs)[2]
             b == IF ev = "part_begin"
                    THEN [a EXCEPT !.open = TRUE, !.headers = <<>>, !.data = <<>>]
                  ELSE IF ev = "header_field"
                    THEN [a EXCEPT !.header_name = @ \o data]
                  ELSE IF ev = "header_value"
                    THEN [a EXCEPT !.header_value = @ \o data]
                  ELSE IF ev = "header_end"
                    THEN [a EXCEPT !.headers =
                                      Append(@, <<a.header_name, a.header_value>>),
                                   !.header_name = <<>>, !.header_value = <<>>]
                  ELSE IF ev = "part_data"
                    THEN [a EXCEPT !.data = @ \o data]
                  ELSE IF ev = "part_end"
                    THEN [a EXCEPT !.open = FALSE,
                                   !.done = Append(@, [headers |-> a.headers,
                                                       data |-> a.data])]
                  ELSE a
         IN PartsFold(Tail(msgs), b)

Parts(msgs) ==
    PartsFold(msgs, [open |-> FALSE, headers |-> <<>>, data |-> <<>>,
                     header_name |-> <<>>, header_value |-> <<>>,
                     done |-> <<>>])

\* the order of part_begin, part_end and end in the event stream:
\* "bad" once an event came out of order
RECURSIVE OrderFold(_, _)
OrderFold(msgs, a) ==
    IF msgs = <<>> \/ a = "bad" THEN a
    ELSE LET ev == Head(msgs)[1]
             b == IF ev = "part_begin"
                    THEN (IF a = "closed" THEN "open" ELSE "bad")
                  ELSE IF ev = "part_end"
                    THEN (IF a = "open" THEN "closed" ELSE "bad")
                  ELSE IF ev = "end"
                    THEN (IF a = "closed" THEN "ended" ELSE "bad")
                  ELSE a
         IN OrderFold(Tail(msgs), b)

PartOrder(msgs) == OrderFold(msgs, "closed")

CountEvents(msgs, name) == Cardinality({i \in 1..Len(msgs) : msgs[i][1] = name})

----------------------------------------------------------------------------
(* The wire format, spec.md section 6: parts are delimited by CRLF--X, a   *)
(* part's headers end with CRLFCRLF, its bytes end at the next delimiter   *)
(* that is followed by CRLF or by "--"                                     *)

\* pat occurs in b at the 0-based offset i
IsAt(b, pat, i) ==
    /\ i >= 0
    /\ i + Len(pat) <= Len(b)
    /\ SubSeq(b, i + 1, i + Len(pat)) = pat

\* the least offset >= from where P holds, or -1
LeastFrom(b, from, P(_)) ==
    LET S == {i \in from..Len(b) : P(i)}
    IN IF S = {} THEN -1 ELSE CHOOSE i \in S : \A k \in S : i <= k

IsDelimiterAt(b, tok, j) ==
    /\ IsAt(b, Delimiter(tok), j)
    /\ \/ IsAt(b, CRLF, j + Len(Delimiter(tok)))
       \/ IsAt(b, Dashes, j + Len(Delimiter(tok)))

\* the parts of b whose headers start at offset q: for each the offset d of
\* its first data byte and the offset j of the delimiter that ends it
RECURSIVE WireParts(_, _, _)
WireParts(b, tok, q) ==
    LET h == LeastFrom(b, Max(q - 2, 0), LAMBDA i : IsAt(b, CRLF \o CRLF, i))
        d == h + 4
        j == LeastFrom(b, d, LAMBDA i : IsDelimiterAt(b, tok, i))
        n == j + Len(Delimiter(tok))
    IN IF h = -1 \/ j = -1 THEN <<>>
       ELSE IF IsAt(b, Dashes, n) THEN <<[d |-> d, j |-> j]>>
       ELSE <<[d |-> d, j |-> j]>> \o WireParts(b, tok, n + 2)

\* the parts of a whole body: leading CR and LF bytes, the opening boundary
\* line, then the parts
WireBody(b, tok) ==
    LET o == LeastFrom(b, 0, LAMBDA i : i < Len(b) /\ b[i + 1] \notin {CR, LF})
    IN IF o # -1 /\ IsAt(b, Opening(tok), o)
       THEN WireParts(b, tok, o + Len(Opening(tok)))
       ELSE <<>>

----------------------------------------------------------------------------
(* Claims about MultipartParser *)

\* every byte of the body has been handed to write() and none was clipped
AllWritten == pos = Len(body) /\ raised = "none" /\ max_size = 0

\* C1: whatever the chunking, the assembled parts (header names, header
\* values and part data) and the error outcome are those of a single
\* write() of the whole body
C1_ChunkingEquivalence ==
    (kind = "mp" /\ pos = Len(body))
        => LET whole == MPWrite(MPNew(boundary, max_size), body, boundary, 0)
           IN /\ Parts(messages).done = Parts(whole.msgs).done
              /\ raised = whole.err

\* C2: when a write() ends inside a delimiter, the candidate bytes are held
\* back (in lookbehind, counted by index) and no slice delivered so far
\* reaches into the delimiter; once the bytes after the delimiter have been
\* written, the part it ends has been closed
C2_SplitDelimiterHeldBack ==
    (kind = "mp" /\ raised = "none" /\ max_size = 0)
        => \A k \in 1..Len(WireBody(body, boundary)) :
              LET part == WireBody(body, boundary)[k]
                  after == part.j + Len(Delimiter(boundary))
              IN /\ (part.j < pos /\ pos < after)
                      => /\ state = STATE_PART_DATA
                         /\ index = pos - part.j
                         /\ SubSeq(lookbehind, 1, index)
                               = SubSeq(body, part.j + 1, pos)
                         /\ sliceEnd <= part.j
                 /\ pos >= after + 2 => CountEvents(messages, "part_end") >= k

\* C3: the data delivered for a part is exactly the body bytes between the
\* CRLFCRLF that ends its headers and the next confirmed delimiter
C3_PartDataExact ==
    (kind = "mp" /\ AllWritten)
        => LET wire == WireBody(body, boundary)
               done == Parts(messages).done
           IN /\ Len(done) = Len(wire)
              /\ \A k \in 1..Len(wire) :
                    done[k].data = SubSeq(body, wire[k].d + 1, wire[k].j)

\* C4: part_begin, part_end and end are emitted in order: a part is begun
\* only when none is open, ended only when one is open, and end comes only
\* when no part is open
C4_PartEventsBalanced ==
    kind = "mp" => PartOrder(messages) # "bad"

C4_Witness ==
    /\ kind = "mp"
    /\ CountEvents(messages, "part_begin") = 2
    /\ CountEvents(messages, "part_end") = 2
    /\ CountEvents(messages, "end") = 1

\* C5: with max_size = M > 0 the scanner never reads, counts or delivers a
\* byte beyond the first M bytes of the input
C5_MultipartClipped ==
    (kind = "mp" /\ max_size > 0)
        => /\ cursize <= max_size
           /\ readEnd <= max_size
           /\ sliceEnd <= max_size

C5_Witness ==
    /\ kind = "mp"
    /\ max_size > 0
    /\ pos > max_size
    /\ cursize = max_size
    /\ sliceEnd = max_size

\* what MultipartParser.parse gives for the body b written in one chunk to
\* a scanner without a size limit
ParseOf(b, tok, dev) ==
    LET p == MPWrite(MPNew(tok, 0), b, tok, 0)
    IN IF p.err # "none" THEN [items |-> <<>>, exc |-> p.err]
       ELSE [items |-> SinkMP(p.msgs, dev, NoUpload).items,
             exc |-> SinkMP(p.msgs, dev, NoUpload).exc]

\* C7: a body longer than max_size raises nothing on account of its size:
\* write() does not raise, the parse gives what the first max_size bytes
\* alone give, and in the default mode of the interpreter that is a normal
\* return of the parts that are closed within the first max_size bytes
C7_TruncationIsSilent ==
    (kind = "mp" /\ max_size > 0 /\ Len(body) > max_size
       /\ pos = Len(body) /\ finalized)
        => /\ raised = "none"
           /\ \A dev \in DevModes :
                 MPParseResult(dev)
                    = ParseOf(SubSeq(body, 1, max_size), boundary, dev)
           /\ MPParseResult(FALSE).exc = "none"
           /\ Len(MPParseResult(FALSE).items)
                 = Len(WireBody(SubSeq(body, 1, max_size), boundary))

\* a text part is closed within max_size, the part after it is cut off
C7_Witness ==
    /\ kind = "mp"
    /\ max_size > 0
    /\ Len(body) > max_size
    /\ pos = Len(body)
    /\ finalized
    /\ cursize = max_size
    /\ CountEvents(messages, "part_begin") = 2
    /\ Len(MPParseResult(FALSE).items) = 1
    /\ MPParseResult(FALSE).items[1][1] = <<110>>

\* C8 as claimed: after finalize() on a scanner that is not in state End an
\* error has been reported
C8_FinalizeValidates ==
    (kind = "mp" /\ finalized /\ state # STATE_END) => raised # "none"

\* C8 amended: finalize() validates nothing: in every state it returns
\* normally, emits no event and leaves the scanner as it was
C8_FinalizeIsNoOp ==
    [][(kind = "mp" /\ ~finalized /\ finalized')
          => /\ raised' = raised
             /\ messages' = messages
             /\ state' = state
             /\ index' = index]_vars

C8_Witness ==
    /\ kind = "mp"
    /\ finalized
    /\ raised = "none"
    /\ state = STATE_PART_DATA
    /\ index > 0

----------------------------------------------------------------------------
(* Claims about QueryStringParser and the urlencoded sink *)

\* C6: with max_size = M > 0 the urlencoded scanner reads no byte and
\* delivers no field_name or field_data byte beyond the first M bytes of
\* the input
C6_QueryStringClipped ==
    (kind = "qs" /\ max_size > 0)
        => /\ cursize <= max_size
           /\ readEnd <= max_size
           /\ sliceEnd <= max_size

\* C9: once the encoding name=value&name=value... of a list of pairs has
\* been written, in whatever chunks, and finalize() has run, the sink
\* returns exactly those pairs in their order, repeated names included
C9_UrlencodedRoundTrip ==
    (kind = "qs" /\ body = urlencode(fields) /\ max_size = 0
       /\ pos = Len(body) /\ finalized)
        => QSParseResult = fields

C9_Witness ==
    /\ kind = "qs"
    /\ finalized
    /\ pos = Len(body)
    /\ feed_size = 0
    /\ Len(fields) = 2
    /\ fields[1][1] = <<97>>
    /\ fields[2][1] = <<97>>
    /\ fields[1][2] # fields[2][2]
    /\ body = urlencode(fields)
    /\ QSParseResult = fields

\* C10: whatever the chunking of a urlencoded body, after finalize() the
\* pairs are those of a single write() of the whole body
C10_QueryChunkingEquivalence ==
    (kind = "qs" /\ max_size = 0 /\ pos = Len(body) /\ finalized)
        => QSParseResult = SinkForm(QSFinalizeOp(QSWrite(QSNew(0), body, 0)).msgs)

\* C11: '&' and ';' both end a field: no field_name or field_data slice
\* holds a '&' or a ';', and no field_name slice holds a '='
C11_SeparatorsEndFields ==
    kind = "qs"
        => \A i \in 1..Len(messages) :
              LET ev == messages[i][1]
                  data == messages[i][2]
              IN (ev \in {"field_name", "field_data"})
                    => \A k \in 1..Len(data) :
                          /\ data[k] # AMPERSAND
                          /\ data[k] # SEMICOLON
                          /\ ev = "field_name" => data[k] # EQUAL

C13_ErrorGivesNoResult ==
    /\ [](raised # "none"
            => \A dev \in DevModes :
                  /\ MPParseResult(dev).exc = raised
                  /\ MPParseResult(dev).items = <<>>)
    /\ [][raised # "none"
            => /\ raised' = raised
               /\ pos' = pos
               /\ messages' = messages]_vars

C13_Witness ==
    /\ kind = "mp"
    /\ raised = "ValueError"
    /\ pos > 0
    /\ Len(SinkMP(messages, FALSE, NoUpload).items) = 1
    /\ MPParseResult(FALSE).items = <<>>

----------------------------------------------------------------------------
(* Claims about the literals of the multipart wire format *)

\* what is wrong first with the header lines of b that start at offset q,
\* and where: "literal" at a byte that differs from the LF due after the CR
\* of a header line, "empty_name" at a ':' that starts a header line,
\* "cr_in_name" at a CR that follows bytes of a header name, or "none"
RECURSIVE HeaderFault(_, _, _)
HeaderFault(b, tok, q) ==
    IF q >= Len(b) THEN [what |-> "none", at |-> -1]
    ELSE IF b[q + 1] = CR
    THEN IF q + 1 >= Len(b) THEN [what |-> "none", at |-> -1]
         ELSE IF b[q + 2] # LF THEN [what |-> "literal", at |-> q + 1]
         ELSE LET j == LeastFrom(b, q + 2, LAMBDA i : IsDelimiterAt(b, tok, i))
                  n == j + Len(Delimiter(tok))
              IN IF j # -1 /\ IsAt(b, CRLF, n)
                 THEN HeaderFault(b, tok, n + 2)
                 ELSE [what |-> "none", at |-> -1]
    ELSE LET e == LeastFrom(b, q, LAMBDA i : i < Len(b)
                                             /\ b[i + 1] \in {CR, COLON})
             c == LeastFrom(b, e + 1, LAMBDA i : i < Len(b) /\ b[i + 1] = CR)
         IN IF e = -1 THEN [what |-> "none", at |-> -1]
            ELSE IF e = q THEN [what |-> "empty_name", at |-> q]
            ELSE IF b[e + 1] = CR THEN [what |-> "cr_in_name", at |-> e]
            ELSE IF c = -1 \/ c + 1 >= Len(b) THEN [what |-> "none", at |-> -1]
            ELSE IF b[c + 2] # LF THEN [what |-> "literal", at |-> c + 1]
            ELSE HeaderFault(b, tok, c + 2)

\* the same for a whole body: leading CR and LF bytes, the opening boundary
\* line byte by byte ("literal"), then the header lines
BodyFault(b, tok) ==
    LET o == LeastFrom(b, 0, LAMBDA i : i < Len(b) /\ b[i + 1] \notin {CR, LF})
        m == LeastFrom(b, o, LAMBDA i : i < Len(b) /\ i < o + Len(Opening(tok))
                                         /\ b[i + 1] # Opening(tok)[i - o + 1])
    IN IF o = -1 THEN [what |-> "none", at |-> -1]
       ELSE IF m # -1 THEN [what |-> "literal", at |-> m]
       ELSE IF o + Len(Opening(tok)) > Len(b) THEN [what |-> "none", at |-> -1]
       ELSE HeaderFault(b, tok, o + Len(Opening(tok)))

\* the offset of the first byte of b that differs from the literal due at
\* its place, or -1; the answer is -1 as well when a header line that
\* starts with ':' or has a CR in its name comes first
FirstBad(b, tok) ==
    IF BodyFault(b, tok).what = "literal" THEN BodyFault(b, tok).at ELSE -1

\* the names of the events in msgs that carry no slice
RECURSIVE Notifications(_)
Notifications(msgs) ==
    IF msgs = <<>> THEN <<>>
    ELSE (IF Head(msgs)[1] \in {"part_begin", "header_end", "headers_finished",
                                "part_end", "end"}
          THEN <<Head(msgs)[1]>> ELSE <<>>) \o Notifications(Tail(msgs))

\* C14: a byte that differs from the literal due in the opening boundary
\* line or after the CR of a header line raises in the write() that holds
\* it: no error before that byte is written, and once it is, an error is
\* raised, no later byte was read, no slice reaches it and the events are
\* those of the bytes before it
C14_LiteralMismatchRaises ==
    (kind = "mp" /\ boundary # NoBoundary /\ max_size = 0
       /\ FirstBad(body, boundary) # -1)
        => LET k == FirstBad(body, boundary)
           IN /\ pos <= k => raised = "none"
              /\ pos > k
                   => /\ raised = "ValueError"
                      /\ readEnd = k + 1
                      /\ sliceEnd <= k
                      /\ Notifications(messages)
                            = Notifications(MPWrite(MPNew(boundary, 0),
                                                    SubSeq(body, 1, k),
                                                    boundary, 0).msgs)

C14_Witness ==
    /\ kind = "mp"
    /\ boundary # NoBoundary
    /\ raised = "ValueError"
    /\ FirstBad(body, boundary) # -1
    /\ readEnd = FirstBad(body, boundary) + 1
    /\ pos > readEnd
    /\ CountEvents(messages, "header_end") = 1
    /\ CountEvents(messages, "part_end") = 1

\* C15: a ':' at the start of a header line raises when it is written,
\* wherever the chunks end, and not before; a body whose header lines all
\* have a name, a ':' and the due literals raises no error
C15_EmptyHeaderNameRaises ==
    (kind = "mp" /\ boundary # NoBoundary /\ max_size = 0)
        => LET fault == BodyFault(body, boundary)
           IN /\ fault.what = "empty_name"
                   => /\ pos <= fault.at => raised = "none"
                      /\ pos > fault.at
                           => raised = "ValueError" /\ readEnd = fault.at + 1
              /\ fault.what = "none" => raised = "none"

\* the ':' was the first byte of the write() that raised, in a second
\* header line
C15_Witness ==
    /\ kind = "mp"
    /\ boundary # NoBoundary
    /\ BodyFault(body, boundary).what = "empty_name"
    /\ raised = "ValueError"
    /\ cursize = BodyFault(body, boundary).at
    /\ readEnd = cursize + 1
    /\ pos > readEnd
    /\ CountEvents(messages, "header_end") = 1

----------------------------------------------------------------------------
(* Claims about the multipart sink *)

----------------------------------------------------------------------------
(* The terminal boundary *)

\* the offset just after the "--" that follows the delimiter of the last
\* part of b, or -1 when b has no terminal boundary
TerminalEnd(b, tok) ==
    LET w == WireBody(b, tok)
        n == IF w = <<>> THEN -1 ELSE w[Len(w)].j + Len(Delimiter(tok))
    IN IF n # -1 /\ IsAt(b, Dashes, n) THEN n + 2 ELSE -1

----------------------------------------------------------------------------
(* Header slices *)

\* the headers the sink assembles from the slices in msgs, in the order of
\* the stream: a header_field slice opens a header or extends the name of
\* the open one, a header_value slice extends its value, header_end
\* closes it
RECURSIVE HeaderFold(_, _)
HeaderFold(msgs, a) ==
    IF msgs = <<>> THEN a
    ELSE LET ev == Head(msgs)[1]
             data == Head(msgs)[2]
             n == Len(a)
             b == IF ev = "header_field"
                    THEN IF n > 0 /\ a[n].stage = "name"
                         THEN [a EXCEPT ![n].name = @ \o data]
                         ELSE Append(a, [name |-> data, value |-> <<>>,
                                         stage |-> "name"])
                  ELSE IF ev = "header_value"
                    THEN IF n > 0 /\ a[n].stage # "done"
                         THEN [a EXCEPT ![n].value = @ \o data,
                                        ![n].stage = "value"]
                         ELSE Append(a, [name |-> <<>>, value |-> data,
                                         stage |-> "value"])
                  ELSE IF ev = "header_end"
                    THEN IF n > 0 /\ a[n].stage # "done"
                         THEN [a EXCEPT ![n].stage = "done"]
                         ELSE Append(a, [name |-> <<>>, value |-> <<>>,
                                         stage |-> "done"])
                  ELSE a
         IN HeaderFold(Tail(msgs), b)

\* name, value and whether it was closed, of every header in msgs
Headers(msgs) ==
    LET h == HeaderFold(msgs, <<>>)
    IN [i \in 1..Len(h) |-> [name |-> h[i].name, value |-> h[i].value,
                             done |-> h[i].stage = "done"]]

\* the same from the bytes p written so far, for the header lines that
\* start at offset q: the name is the bytes before ':', the value the bytes
\* after ':' and the spaces that follow it, up to the CR; a header is done
\* when its CR is among the bytes
RECURSIVE WireHeaderLines(_, _, _)
WireHeaderLines(p, tok, q) ==
    IF q >= Len(p) THEN <<>>
    ELSE IF p[q + 1] = CR
    THEN LET j == LeastFrom(p, q + 2, LAMBDA i : IsDelimiterAt(p, tok, i))
             n == j + Len(Delimiter(tok))
         IN IF IsAt(p, CRLF, q) /\ j # -1 /\ IsAt(p, CRLF, n)
            THEN WireHeaderLines(p, tok, n + 2)
            ELSE <<>>
    ELSE LET e == LeastFrom(p, q, LAMBDA i : i < Len(p) /\ p[i + 1] = COLON)
             v == LeastFrom(p, e + 1, LAMBDA i : i < Len(p)
                                                 /\ p[i + 1] # SPACE)
             c == LeastFrom(p, v, LAMBDA i : i < Len(p) /\ p[i + 1] = CR)
         IN IF e = -1
            THEN <<[name |-> SubSeq(p, q + 1, Len(p)), value |-> <<>>,
                    done |-> FALSE]>>
            ELSE IF v = -1
            THEN <<[name |-> SubSeq(p, q + 1, e), value |-> <<>>,
                    done |-> FALSE]>>
            ELSE IF c = -1
            THEN <<[name |-> SubSeq(p, q + 1, e),
                    value |-> SubSeq(p, v + 1, Len(p)), done |-> FALSE]>>
            ELSE <<[name |-> SubSeq(p, q + 1, e),
                    value |-> SubSeq(p, v + 1, c), done |-> TRUE]>>
                   \o (IF IsAt(p, CRLF, c)
                       THEN WireHeaderLines(p, tok, c + 2) ELSE <<>>)

WireHeaders(p, tok) ==
    LET o == LeastFrom(p, 0, LAMBDA i : i < Len(p) /\ p[i + 1] \notin {CR, LF})
    IN IF o # -1 /\ IsAt(p, Opening(tok), o)
       THEN WireHeaderLines(p, tok, o + Len(Opening(tok)))
       ELSE <<>>

\* C19: on a body whose header lines are well formed, after every write of
\* every chunking the header slices emitted so far concatenate, header by
\* header, to the name and value bytes among the bytes written so far
C19_HeaderSlicesConcatenate ==
    (kind = "mp" /\ boundary # NoBoundary /\ raised = "none" /\ max_size = 0
       /\ BodyFault(body, boundary).what = "none")
        => Headers(messages) = WireHeaders(SubSeq(body, 1, pos), boundary)

\* a header name and a header value were each emitted in two slices or more
C19_Witness ==
    /\ kind = "mp"
    /\ raised = "none"
    /\ pos = Len(body)
    /\ BodyFault(body, boundary).what = "none"
    /\ \E i, j \in 1..Len(messages) :
          /\ i < j
          /\ messages[i] = <<"header_field", <<68>>>>
          /\ messages[j] = <<"header_field", <<68, 68>>>>
    /\ \E i, j \in 1..Len(messages) :
          /\ i < j
          /\ messages[i] = <<"header_value", <<110>>>>
          /\ messages[j] = <<"header_value", <<110>>>>
    /\ Headers(messages)[1] = [name |-> <<68, 68, 68>>, value |-> <<110, 110>>,
                               done |-> TRUE]

----------------------------------------------------------------------------
(* The end of the header block *)

\* how many blank lines end a header block among the bytes p, from the
\* header lines that start at offset q: CR LF where a header line would
\* start; the count stops at a line with a CR inside its name, which ends
\* no header block
RECURSIVE WireFinished(_, _, _)
WireFinished(p, tok, q) ==
    IF q >= Len(p) THEN 0
    ELSE IF p[q + 1] = CR
    THEN LET j == LeastFrom(p, q + 2, LAMBDA i : IsDelimiterAt(p, tok, i))
             n == j + Len(Delimiter(tok))
         IN IF ~IsAt(p, CRLF, q) THEN 0
            ELSE IF j # -1 /\ IsAt(p, CRLF, n)
            THEN 1 + WireFinished(p, tok, n + 2)
            ELSE 1
    ELSE LET e == LeastFrom(p, q, LAMBDA i : i < Len(p)
                                             /\ p[i + 1] \in {CR, COLON})
             c == LeastFrom(p, e + 1, LAMBDA i : i < Len(p) /\ p[i + 1] = CR)
         IN IF e = -1 \/ p[e + 1] = CR \/ c = -1 \/ ~IsAt(p, CRLF, c) THEN 0
            ELSE WireFinished(p, tok, c + 2)

\* the same for the bytes of a whole body
WireFinishedBody(p, tok) ==
    LET o == LeastFrom(p, 0, LAMBDA i : i < Len(p) /\ p[i + 1] \notin {CR, LF})
    IN IF o # -1 /\ IsAt(p, Opening(tok), o)
       THEN WireFinished(p, tok, o + Len(Opening(tok)))
       ELSE 0

\* where headers_finished stands in its part: "bad" once a part has two, or
\* a header slice or header_end after it, or part_data or part_end
\* before it
RECURSIVE FinishedFold(_, _)
FinishedFold(msgs, a) ==
    IF msgs = <<>> THEN a
    ELSE LET ev == Head(msgs)[1]
             b == IF a = "bad" THEN "bad"
                  ELSE IF ev = "part_begin" THEN "headers"
                  ELSE IF ev \in {"header_field", "header_value", "header_end"}
                    THEN IF a = "headers" THEN "headers" ELSE "bad"
                  ELSE IF ev = "headers_finished"
                    THEN IF a = "headers" THEN "data" ELSE "bad"
                  ELSE IF ev \in {"part_data", "part_end"}
                    THEN IF a = "data" THEN "data" ELSE "bad"
                  ELSE a
         IN FinishedFold(Tail(msgs), b)

\* C20: headers_finished comes once per part, after the part's header
\* events and before its part_data; as many were emitted as CR LF pairs
\* stand at the start of a header line among the bytes written, and the
\* CR LF after the bytes of a header name adds none
C20_HeadersFinishedAtBlankLine ==
    (kind = "mp" /\ boundary # NoBoundary /\ raised = "none" /\ max_size = 0)
        => /\ FinishedFold(messages, "closed") # "bad"
           /\ (\/ BodyFault(body, boundary).what = "none"
               \/ /\ BodyFault(body, boundary).what = "cr_in_name"
                  /\ pos <= BodyFault(body, boundary).at + 2)
                => CountEvents(messages, "headers_finished")
                     = WireFinishedBody(SubSeq(body, 1, pos), boundary)

----------------------------------------------------------------------------
(* Zero-length writes *)

\* C21: a write() of a zero-length chunk, at any point of the stream and
\* for both scanners, raises nothing, leaves state, index, flags,
\* lookbehind and cursize as they were, and adds to the events at most
\* header_field, header_value and part_data slices that are empty
C21_EmptyWriteIsNoOp ==
    [][(~finalized' /\ pos' = pos /\ empties' = empties + 1)
         => /\ raised' = "none"
            /\ state' = state
            /\ index' = index
            /\ flags' = flags
            /\ lookbehind' = lookbehind
            /\ cursize' = cursize
            /\ Len(messages') >= Len(messages)
            /\ SubSeq(messages', 1, Len(messages)) = messages
            /\ \A i \in (Len(messages) + 1)..Len(messages') :
                  /\ messages'[i][1] \in {"header_field", "header_value",
                                          "part_data"}
                  /\ messages'[i][2] = <<>>]_vars

\* a zero-length chunk was written inside a header value and the rest of
\* the body after it
C21_Witness ==
    /\ kind = "mp"
    /\ empties = 1
    /\ pos = Len(body)
    /\ raised = "none"
    /\ \E i \in 1..(Len(messages) - 2) :
          /\ messages[i] = <<"header_value", <<110>>>>
          /\ messages[i + 1] = <<"header_value", <<>>>>
          /\ messages[i + 2] = <<"header_value", <<110>>>>

\* the same for the query string scanner, inside a field name
C21_WitnessQS ==
    /\ kind = "qs"
    /\ empties = 1
    /\ pos = Len(body)
    /\ state = STATE_FIELD_DATA

----------------------------------------------------------------------------
(* QueryStringParser.finalize *)

C22_WitnessName ==
    /\ kind = "qs"
    /\ finalized
    /\ state = STATE_FIELD_NAME
    /\ CountEvents(messages, "field_end") = 0
    /\ CountEvents(messages, "end") = 1

----------------------------------------------------------------------------
(* The request: stream(), body(), form() *)

\* a request makes at most this many calls
MaxCalls == 3

\* the values of max_size a call of form() passes
FormSizes == {0, 2}

\* the chunk lists the transport delivers for a urlencoded body, as
\* gen_request does (conftest.py:74-78), and for a multipart body with the
\* token "X": a text part in two chunks, a file part, a body with a wrong
\* opening boundary in two chunks
UrlencodedChunks ==
    { << <<97, EQUAL, 98>> >>,
      << <<97, EQUAL>>, <<98>> >>,
      << <<>> >> }

MultipartChunks ==
    { << Opening(<<88>>) \o HdrField, <<97>> \o Terminal(<<88>>) >>,
      << Opening(<<88>>) \o HdrFile \o <<97>> \o Terminal(<<88>>) >>,
      << <<97, 97>>, <<97>> >> }

\* `async for chunk in request.stream(): parser.write(chunk)`,
\* forms.py:69-70
RECURSIVE PumpQS(_, _, _)
PumpQS(p, chunks, base) ==
    IF chunks = <<>> THEN p
    ELSE PumpQS(QSWrite(p, Head(chunks), base), Tail(chunks),
                base + Len(Head(chunks)))

\* the same for the multipart scanner, forms.py:119-120: a write() that
\* raises ends the loop; taken counts the chunks asked of the stream
RECURSIVE PumpMP(_, _, _, _, _)
PumpMP(p, chunks, token, base, taken) ==
    IF chunks = <<>> \/ p.err # "none" THEN [p |-> p, taken |-> taken]
    ELSE PumpMP(MPWrite(p, Head(chunks), token, base), Tail(chunks), token,
                base + Len(Head(chunks)), taken + 1)

\* read_formdata for the chunks the stream will yield: the scanner and the
\* sink are chosen by content type, the chunks are pumped, finalize() is
\* called and the sink's result returned
ReadFormdata(content_type, chunks, max, dev, upload_to) ==
    IF content_type = "multipart/form-data"
    THEN LET Sunk(r, sink) ==
                 IF r.p.err # "none"
                 THEN [exc |-> r.p.err, items |-> <<>>, taken |-> r.taken]
                 ELSE [exc |-> sink.exc,
                       items |-> IF sink.exc = "none" THEN sink.items
                                 ELSE <<>>,
                       taken |-> r.taken]
             Pumped(r) ==
                 Sunk(r, SinkMP(MPFinalizeOp(r.p).msgs, dev, upload_to))
         IN Pumped(PumpMP(MPNew(<<88>>, max), chunks, <<88>>, 0, 0))
    ELSE [exc |-> "none",
          items |-> SinkForm(QSFinalizeOp(PumpQS(QSNew(max), chunks, 0)).msgs),
          taken |-> Len(chunks)]

\* a variant that does not mark the request as read
RequestStream_NoMark(r, ch, k) ==
    IF r.is_read
    THEN IF r.body = NoBody
         THEN [request |-> r, channel |-> ch, exc |-> "RuntimeError",
               chunks |-> <<>>]
         ELSE [request |-> r, channel |-> ch, exc |-> "none",
               chunks |-> <<r.body>>]
    ELSE [request |-> r,
          channel |-> [pending |-> SubSeq(ch.pending, k + 1, Len(ch.pending)),
                       received |-> ch.received + k],
          exc |-> "none",
          chunks |-> SubSeq(ch.pending, 1, k)]

\* Request.stream, request.py:214-237, iterated until it has yielded k
\* chunks or is exhausted
RequestStream(r, ch, k) ==
    IF r.is_read
    THEN IF r.body = NoBody
         THEN [request |-> r, channel |-> ch, exc |-> "RuntimeError",
               chunks |-> <<>>]
         ELSE [request |-> r, channel |-> ch, exc |-> "none",
               chunks |-> <<r.body>>]
    ELSE [request |-> [r EXCEPT !.is_read = TRUE],
          channel |-> [pending |-> SubSeq(ch.pending, k + 1, Len(ch.pending)),
                       received |-> ch.received + k],
          exc |-> "none",
          chunks |-> SubSeq(ch.pending, 1, k)]

\* Request.body, request.py:239-250
RequestBody(r, ch) ==
    IF r.body # NoBody
    THEN [request |-> r, channel |-> ch, exc |-> "none", bytes |-> r.body]
    ELSE LET st == RequestStream(r, ch, Len(ch.pending))
         IN IF st.exc # "none"
            THEN [request |-> st.request, channel |-> st.channel,
                  exc |-> st.exc, bytes |-> <<>>]
            ELSE [request |-> [st.request EXCEPT !.body = Concat(st.chunks)],
                  channel |-> st.channel, exc |-> "none",
                  bytes |-> Concat(st.chunks)]

\* a variant that parses the body on every call
RequestForm_Reparse(r, ch, max, upload_to, id) ==
    LET avail == IF ~r.is_read THEN ch.pending
                 ELSE IF r.body = NoBody THEN <<>> ELSE <<r.body>>
        parsed == ReadFormdata(r.content_type, avail, max, r.dev, upload_to)
        st == RequestStream(r, ch, parsed.taken)
    IN IF st.exc # "none"
       THEN [request |-> st.request, channel |-> st.channel,
             exc |-> st.exc, form |-> NoForm]
       ELSE IF parsed.exc # "none"
       THEN [request |-> st.request, channel |-> st.channel,
             exc |-> parsed.exc, form |-> NoForm]
       ELSE [request |-> [st.request EXCEPT
                             !.form = [id |-> id, items |-> parsed.items]],
             channel |-> st.channel, exc |-> "none",
             form |-> [id |-> id, items |-> parsed.items]]

\* Request.form, request.py:274-300; id is the identity of the object a
\* parse would create
RequestForm(r, ch, max, upload_to, id) ==
    IF r.form.id # 0
    THEN [request |-> r, channel |-> ch, exc |-> "none", form |-> r.form]
    ELSE LET avail == IF ~r.is_read THEN ch.pending
                      ELSE IF r.body = NoBody THEN <<>> ELSE <<r.body>>
             Outcome(parsed, st) ==
                 IF st.exc # "none"
                 THEN [request |-> st.request, channel |-> st.channel,
                       exc |-> st.exc, form |-> NoForm]
                 ELSE IF parsed.exc # "none"
                 THEN [request |-> st.request, channel |-> st.channel,
                       exc |-> parsed.exc, form |-> NoForm]
                 ELSE [request |-> [st.request EXCEPT
                                       !.form = [id |-> id,
                                                 items |-> parsed.items]],
                       channel |-> st.channel, exc |-> "none",
                       form |-> [id |-> id, items |-> parsed.items]]
             Parsed(parsed) ==
                 Outcome(parsed, RequestStream(r, ch, parsed.taken))
         IN Parsed(ReadFormdata(r.content_type, avail, max, r.dev,
                                upload_to))

\* the scanner variables when the scanner is not driven directly
ScannerIdle ==
    /\ body = <<>>
    /\ pos = 0
    /\ boundary = <<>>
    /\ max_size = 0
    /\ cursize = 0
    /\ state = STATE_START
    /\ index = 0
    /\ flags = 0
    /\ header_field_pos = -1
    /\ header_value_pos = -1
    /\ part_data_pos = -1
    /\ lookbehind = <<>>
    /\ messages = <<>>
    /\ raised = "none"
    /\ finalized = FALSE
    /\ empties = 0
    /\ feed_size = 0
    /\ fields = <<>>
    /\ readEnd = 0
    /\ sliceEnd = 0
    /\ resume = NoResume
    /\ skipped = {}
    /\ finalizes = 0

\* Request.__init__, request.py:56-68, over the transport of gen_request
InitReq ==
    /\ kind = "req"
    /\ ScannerIdle
    /\ \E ct \in {"application/x-www-form-urlencoded", "multipart/form-data"} :
       \E dev \in DevModes :
          /\ request = [content_type |-> ct, dev |-> dev, is_read |-> FALSE,
                        body |-> NoBody, form |-> NoForm]
          /\ \E chunks \in (IF ct = "multipart/form-data" THEN MultipartChunks
                            ELSE UrlencodedChunks) :
                channel = [pending |-> chunks, received |-> 0]
    /\ pipe = [app_is_closed |-> FALSE, client_is_closed |-> FALSE,
               app_queue |-> <<>>, client_queue |-> <<>>]
    /\ last = NoCall
    /\ ncalls = 0
    /\ calls = <<>>
    /\ websocket = NoWebSocket

\* a consumer iterates request.stream() for k chunks
ReqStreamCall ==
    /\ kind = "req"
    /\ ncalls < MaxCalls
    /\ \E k \in 1..Max(1, Len(channel.pending)) :
          LET st == RequestStream(request, channel, k)
          IN /\ request' = st.request
             /\ channel' = st.channel
             /\ last' = [op |-> "stream", exc |-> st.exc,
                         bytes |-> Concat(st.chunks), form |-> NoForm,
                         max_size |-> 0]
    /\ ncalls' = ncalls + 1
    /\ UNCHANGED <<kind, pipe, websocket, calls>>
    /\ UNCHANGED scanvars

\* await request.body()
ReqBodyCall ==
    /\ kind = "req"
    /\ ncalls < MaxCalls
    /\ LET b == RequestBody(request, channel)
       IN /\ request' = b.request
          /\ channel' = b.channel
          /\ last' = [op |-> "body", exc |-> b.exc, bytes |-> b.bytes,
                      form |-> NoForm, max_size |-> 0]
    /\ ncalls' = ncalls + 1
    /\ UNCHANGED <<kind, pipe, websocket, calls>>
    /\ UNCHANGED scanvars

\* await request.form(max_size, upload_to)
ReqFormCall ==
    /\ kind = "req"
    /\ ncalls < MaxCalls
    /\ \E max \in FormSizes : \E upload_to \in {NoUpload, UploadPath} :
          LET Returned(f) ==
                  /\ request' = f.request
                  /\ channel' = f.channel
                  /\ last' = [op |-> "form", exc |-> f.exc, bytes |-> <<>>,
                              form |-> f.form, max_size |-> max]
          IN Returned(RequestForm(request, channel, max, upload_to,
                                  ncalls + 1))
    /\ ncalls' = ncalls + 1
    /\ UNCHANGED <<kind, pipe, websocket, calls>>
    /\ UNCHANGED scanvars

NextReq == ReqStreamCall \/ ReqBodyCall \/ ReqFormCall

SpecReq == InitReq /\ [][NextReq]_vars

\* C23: a call of form() on a request that holds a form returns that very
\* object, raises nothing and asks nothing of the transport, whatever
\* max_size and upload_to it passes; a call of form() that returns stores
\* what it returns; so no request parses its body twice
C23_FormParsedOnce ==
    [][(kind = "req" /\ last'.op = "form" /\ ncalls' = ncalls + 1)
         => /\ request.form.id # 0
                 => /\ last'.exc = "none"
                    /\ last'.form = request.form
                    /\ request' = request
                    /\ channel' = channel
            /\ last'.exc = "none"
                 => /\ last'.form.id # 0
                    /\ request'.form = last'.form]_vars

\* a third call of form(), with another max_size, returned the object of
\* the first call
C23_Witness ==
    /\ kind = "req"
    /\ ncalls = 3
    /\ last.op = "form"
    /\ last.exc = "none"
    /\ last.max_size = 2
    /\ last.form.id = 1
    /\ last.form.items = << <<<<97>>, <<98>>>> >>
    /\ request.form = last.form

\* C24: the transport is asked for each chunk once.  On a request that was
\* read and holds no body, body() and stream() raise RuntimeError and ask
\* nothing of the transport; on a request that holds its body, body()
\* returns it, stream() yields it, form() parses it (or returns the stored
\* form), none of them raises RuntimeError and none asks anything of the
\* transport
C24_StreamReadOnce ==
    /\ [](kind = "req"
            => /\ channel.received + Len(channel.pending) > 0
               /\ channel.received > 0 => request.is_read
               /\ request.body # NoBody
                    => request.is_read /\ channel.pending = <<>>)
    /\ [][(kind = "req" /\ ncalls' = ncalls + 1)
            => /\ (request.is_read /\ request.body = NoBody
                     /\ last'.op \in {"body", "stream"})
                    => /\ last'.exc = "RuntimeError"
                       /\ channel' = channel
                       /\ request' = request
               /\ request.body # NoBody
                    => /\ channel' = channel
                       /\ last'.exc # "RuntimeError"
                       /\ request'.body = request.body
                       /\ last'.op \in {"body", "stream"}
                            => /\ last'.exc = "none"
                               /\ last'.bytes = request.body
                       /\ (last'.op = "form" /\ request.form.id = 0)
                            => \E upload_to \in {NoUpload, UploadPath} :
                                 LET parsed == ReadFormdata(
                                        request.content_type, <<request.body>>,
                                        last'.max_size, request.dev, upload_to)
                                 IN /\ last'.exc = parsed.exc
                                    /\ last'.form.items = parsed.items
               /\ channel'.received + Len(channel'.pending)
                    = channel.received + Len(channel.pending)]_vars

\* body() was refused after form() had read the stream
C24_Witness ==
    /\ kind = "req"
    /\ ncalls = 2
    /\ request.form.id = 1
    /\ request.body = NoBody
    /\ channel.pending = <<>>
    /\ last.op = "body"
    /\ last.exc = "RuntimeError"

\* form() was served from the body that body() had cached
C24_WitnessCached ==
    /\ kind = "req"
    /\ ncalls = 2
    /\ request.body = <<97, EQUAL, 98>>
    /\ channel.received = 2
    /\ last.op = "form"
    /\ last.exc = "none"
    /\ last.form.items = << <<<<97>>, <<98>>>> >>

----------------------------------------------------------------------------
(* The test client's Pipe *)

\* a pipe carries at most this many calls
MaxSends == 3

\* messages the application sends; more_body is "absent" when the message
\* has no such key
ClientMsgs ==
    { [type |-> "http.response.start", more_body |-> "absent"],
      [type |-> "http.response.body", more_body |-> "true"],
      [type |-> "http.response.body", more_body |-> "false"],
      [type |-> "http.response.body", more_body |-> "absent"],
      [type |-> "websocket.send", more_body |-> "absent"],
      [type |-> "websocket.close", more_body |-> "absent"] }

\* messages the client sends to the application
AppMsgs ==
    { [type |-> "http.request", more_body |-> "true"],
      [type |-> "http.request", more_body |-> "false"],
      [type |-> "http.disconnect", more_body |-> "absent"],
      [type |-> "websocket.receive", more_body |-> "absent"] }

\* a variant that accepts messages for a closed client
send_to_client_NoCheck(p, msg) ==
    [pipe |-> [p EXCEPT
                 !.client_is_closed =
                     IF msg.type = "websocket.close" THEN TRUE
                     ELSE IF msg.type = "http.response.body"
                     THEN msg.more_body # "true"
                     ELSE @,
                 !.client_queue = Append(@, msg)],
     exc |-> "none"]

\* Pipe.send_to_client, tests.py:338-348
send_to_client(p, msg) ==
    IF p.client_is_closed
    THEN [pipe |-> p, exc |-> "ASGIInvalidMessageError"]
    ELSE [pipe |-> [p EXCEPT
                      !.client_is_closed =
                          IF msg.type = "websocket.close" THEN TRUE
                          ELSE IF msg.type = "http.response.body"
                          THEN msg.more_body # "true"
                          ELSE @,
                      !.client_queue = Append(@, msg)],
          exc |-> "none"]

\* Pipe.send_to_app, tests.py:350-357
send_to_app(p, msg) ==
    IF p.app_is_closed
    THEN [pipe |-> p, exc |-> "ASGIInvalidMessageError"]
    ELSE [pipe |-> [p EXCEPT
                      !.app_is_closed =
                          IF msg.type = "http.disconnect" THEN TRUE ELSE @,
                      !.app_queue = Append(@, msg)],
          exc |-> "none"]

\* Pipe.__init__, tests.py:331-336
InitPipe ==
    /\ kind = "pipe"
    /\ ScannerIdle
    /\ request = [content_type |-> "none", dev |-> FALSE, is_read |-> FALSE,
                  body |-> NoBody, form |-> NoForm]
    /\ channel = [pending |-> <<>>, received |-> 0]
    /\ pipe = [app_is_closed |-> FALSE, client_is_closed |-> FALSE,
               app_queue |-> <<>>, client_queue |-> <<>>]
    /\ last = [op |-> "none", exc |-> "none",
               msg |-> [type |-> "none", more_body |-> "absent"]]
    /\ ncalls = 0
    /\ calls = <<>>
    /\ websocket = NoWebSocket

\* the application calls send(msg)
PipeSendToClient ==
    /\ kind = "pipe"
    /\ ncalls < MaxSends
    /\ \E msg \in ClientMsgs :
          /\ pipe' = send_to_client(pipe, msg).pipe
          /\ last' = [op |-> "send_to_client",
                      exc |-> send_to_client(pipe, msg).exc, msg |-> msg]
    /\ ncalls' = ncalls + 1
    /\ UNCHANGED <<kind, request, channel, calls, websocket>>
    /\ UNCHANGED scanvars

\* the client sends msg to the application
PipeSendToApp ==
    /\ kind = "pipe"
    /\ ncalls < MaxSends
    /\ \E msg \in AppMsgs :
          /\ pipe' = send_to_app(pipe, msg).pipe
          /\ last' = [op |-> "send_to_app",
                      exc |-> send_to_app(pipe, msg).exc, msg |-> msg]
    /\ ncalls' = ncalls + 1
    /\ UNCHANGED <<kind, request, channel, calls, websocket>>
    /\ UNCHANGED scanvars

\* Pipe.receive_from_client, tests.py:359-362, once the queue has a message
PipeReceiveFromClient ==
    /\ kind = "pipe"
    /\ pipe.client_queue # <<>>
    /\ pipe' = [pipe EXCEPT !.client_queue = Tail(@)]
    /\ last' = [op |-> "receive_from_client", exc |-> "none",
                msg |-> Head(pipe.client_queue)]
    /\ UNCHANGED <<kind, request, channel, ncalls, calls, websocket>>
    /\ UNCHANGED scanvars

\* Pipe.receive_from_app, tests.py:364-367, once the queue has a message
PipeReceiveFromApp ==
    /\ kind = "pipe"
    /\ pipe.app_queue # <<>>
    /\ pipe' = [pipe EXCEPT !.app_queue = Tail(@)]
    /\ last' = [op |-> "receive_from_app", exc |-> "none",
                msg |-> Head(pipe.app_queue)]
    /\ UNCHANGED <<kind, request, channel, ncalls, calls, websocket>>
    /\ UNCHANGED scanvars

NextPipe ==
    \/ PipeSendToClient
    \/ PipeSendToApp
    \/ PipeReceiveFromClient
    \/ PipeReceiveFromApp

SpecPipe == InitPipe /\ [][NextPipe]_vars

\* C25: a message for the client that is accepted closes the client side
\* when it is websocket.close or an http.response.body whose more_body is
\* not true; a closed side stays closed; a message for a closed client
\* raises ASGIInvalidMessageError and leaves both queues as they are; the
\* same holds for the application side after http.disconnect
C25_ClosedPipeRejects ==
    [][kind = "pipe"
         => /\ pipe.client_is_closed => pipe'.client_is_closed
            /\ pipe.app_is_closed => pipe'.app_is_closed
            /\ (ncalls' = ncalls + 1 /\ last'.op = "send_to_client")
                 => IF pipe.client_is_closed
                    THEN /\ last'.exc = "ASGIInvalidMessageError"
                         /\ pipe' = pipe
                    ELSE /\ last'.exc = "none"
                         /\ pipe'.client_queue
                              = Append(pipe.client_queue, last'.msg)
                         /\ pipe'.client_is_closed
                              = (\/ last'.msg.type = "websocket.close"
                                 \/ /\ last'.msg.type = "http.response.body"
                                    /\ last'.msg.more_body # "true")
            /\ (ncalls' = ncalls + 1 /\ last'.op = "send_to_app")
                 => IF pipe.app_is_closed
                    THEN /\ last'.exc = "ASGIInvalidMessageError"
                         /\ pipe' = pipe
                    ELSE /\ last'.exc = "none"
                         /\ pipe'.app_queue = Append(pipe.app_queue, last'.msg)
                         /\ pipe'.app_is_closed
                              = (last'.msg.type = "http.disconnect")]_vars

\* the application started a second response after the body of the first
\* had been sent and received
C25_Witness ==
    /\ kind = "pipe"
    /\ ncalls = 3
    /\ pipe.client_is_closed
    /\ pipe.client_queue = <<[type |-> "http.response.body",
                              more_body |-> "false"]>>
    /\ last.op = "send_to_client"
    /\ last.msg.type = "http.response.start"
    /\ last.exc = "ASGIInvalidMessageError"

\* a message for the application was refused after http.disconnect
C25_WitnessApp ==
    /\ kind = "pipe"
    /\ pipe.app_is_closed
    /\ last.op = "send_to_app"
    /\ last.exc = "ASGIInvalidMessageError"

----------------------------------------------------------------------------
(* Delimiters inside the stream *)

\* the index in msgs of the k-th event called name, or 0
EventIndex(msgs, name, k) ==
    LET S == {i \in 1..Len(msgs) :
                 /\ msgs[i][1] = name
                 /\ Cardinality({j \in 1..i : msgs[j][1] = name}) = k}
    IN IF S = {} THEN 0 ELSE CHOOSE i \in S : TRUE

----------------------------------------------------------------------------
(* Candidates that fail *)

\* C27 as stated: after a candidate delimiter has failed, the scanner goes
\* on with the byte that follows the candidate's first byte
C27_ResumesAfterCandidateStart ==
    (kind = "mp" /\ boundary # NoBoundary /\ max_size = 0
       /\ BodyFault(body, boundary).what # "cr_in_name"
       /\ resume # NoResume)
        => resume.at = resume.cand + 1

\* C27, amended: after a candidate delimiter has failed, the bytes it had
\* matched are emitted as one part_data event and the scanner goes on with
\* the byte that did not match, which may start a delimiter itself; every
\* delimiter of the body is found, also one that starts where a candidate
\* failed
C27_ResumesAtMismatch ==
    (kind = "mp" /\ boundary # NoBoundary /\ max_size = 0
       /\ BodyFault(body, boundary).what # "cr_in_name")
        => /\ resume # NoResume
                => LET ext == Delimiter(boundary) \o <<body[resume.at]>>
                       n == resume.at - resume.cand
                   IN /\ n >= 1
                      /\ n <= Len(Delimiter(boundary)) + 1
                      /\ resume.at < Len(body)
                      /\ SubSeq(body, resume.cand + 1, resume.at)
                           = SubSeq(ext, 1, n)
                      /\ ~IsDelimiterAt(body, boundary, resume.cand)
                      /\ messages[resume.ev]
                           = <<"part_data",
                               SubSeq(body, resume.cand + 1, resume.at)>>
                      /\ readEnd >= resume.at + 1
           /\ (pos = Len(body) /\ raised = "none")
                => LET wire == WireBody(body, boundary)
                       done == Parts(messages).done
                   IN /\ Len(done) = Len(wire)
                      /\ \A k \in 1..Len(wire) :
                            done[k].data
                              = SubSeq(body, wire[k].d + 1, wire[k].j)

\* a candidate of two bytes failed at a CR that starts the terminal boundary
C27_Witness ==
    /\ kind = "mp"
    /\ raised = "none"
    /\ pos = Len(body)
    /\ state = STATE_END
    /\ resume.cand # -1
    /\ resume.at = resume.cand + 2
    /\ IsDelimiterAt(body, boundary, resume.at)
    /\ Parts(messages).done[1].data = CRLF

----------------------------------------------------------------------------
(* The skip search *)

\* C28: the skip search passes over no byte of a delimiter, so the parts end
\* at the delimiters that a byte-by-byte reading of the body finds and carry
\* the data in between; no byte at or beyond the clipped length of the chunk
\* is read
C28_SkipFindsEveryDelimiter ==
    (kind = "mp" /\ boundary # NoBoundary)
        => /\ \A j \in skipped : \A d \in 0..Len(body) :
                 IsAt(body, Delimiter(boundary), d)
                    => ~(d <= j /\ j < d + Len(Delimiter(boundary)))
           /\ readEnd <= pos
           /\ max_size > 0 => readEnd <= max_size
           /\ (AllWritten /\ BodyFault(body, boundary).what # "cr_in_name")
                => LET wire == WireBody(body, boundary)
                       done == Parts(messages).done
                   IN /\ Len(done) = Len(wire)
                      /\ \A k \in 1..Len(wire) :
                            done[k].data
                              = SubSeq(body, wire[k].d + 1, wire[k].j)

\* the skip search strode over a run of part data and the scanner found the
\* terminal boundary behind it
C28_Witness ==
    /\ kind = "mp"
    /\ AllWritten
    /\ state = STATE_END
    /\ Cardinality(skipped) >= Len(Delimiter(boundary))
    /\ Len(Parts(messages).done) = 1
    /\ Len(Parts(messages).done[1].data) >= Len(Delimiter(boundary))

----------------------------------------------------------------------------
(* Full matches that are no boundary *)

\* the bytes CRLF '--' token at offset j of b are followed by a byte other
\* than CR and '-', by CR and a byte other than LF, or by '-' and a byte
\* other than '-'
FalseBoundaryAt(b, tok, j) ==
    LET n == j + Len(Delimiter(tok))
    IN /\ IsAt(b, Delimiter(tok), j)
       /\ n < Len(b)
       /\ \/ b[n + 1] \notin {CR, HYPHEN}
          \/ n + 1 < Len(b) /\ b[n + 1] = CR /\ b[n + 2] # LF
          \/ n + 1 < Len(b) /\ b[n + 1] = HYPHEN /\ b[n + 2] # HYPHEN

\* the offset of the byte that shows it, the first byte after the match and
\* the CR or '-' that followed it
FalseBoundaryEnd(b, tok, j) ==
    LET n == j + Len(Delimiter(tok))
    IN IF b[n + 1] \in {CR, HYPHEN} THEN n + 1 ELSE n

C29_WitnessCR ==
    /\ kind = "mp"
    /\ AllWritten
    /\ state = STATE_END
    /\ resume # NoResume
    /\ resume.at = resume.cand + Len(Delimiter(boundary)) + 1
    /\ body[resume.at] = CR

\* CRLF '--' token and then a byte that is neither CR nor '-'
C29_WitnessOther ==
    /\ kind = "mp"
    /\ AllWritten
    /\ state = STATE_END
    /\ resume # NoResume
    /\ resume.at = resume.cand + Len(Delimiter(boundary))

----------------------------------------------------------------------------
(* The boundary flags *)

\* the bytes of the body that the scanner has been given and has not clipped
Scanned ==
    IF max_size > 0 /\ max_size < pos THEN max_size ELSE pos

\* C30: there are no more end events than terminal boundaries (a delimiter
\* and two hyphens) in the bytes scanned and no more part_end events that a
\* part_begin follows than part delimiters (a delimiter and CR LF), and both
\* flags are clear whenever index is 0
C30_BoundaryClassifiedByFollower ==
    (kind = "mp" /\ boundary # NoBoundary /\ raised = "none")
        => /\ index = 0 => flags = 0
           /\ LET ends == {j \in 0..Scanned :
                             /\ IsAt(body, Terminal(boundary), j)
                             /\ j + Len(Terminal(boundary)) <= Scanned}
              IN CountEvents(messages, "end") <= Cardinality(ends)
           /\ LET seams == {j \in 0..Scanned :
                              /\ IsAt(body, Delimiter(boundary) \o CRLF, j)
                              /\ j + Len(Delimiter(boundary)) + 2 <= Scanned}
                  pairs == {k \in 1..(Len(messages) - 1) :
                              /\ messages[k][1] = "part_end"
                              /\ messages[k + 1][1] = "part_begin"}
              IN Cardinality(pairs) <= Cardinality(seams)

----------------------------------------------------------------------------
(* The end of the stream *)

\* C31 as stated: once finalize() has run on a stream that ended inside a
\* candidate delimiter, the data delivered for the open part ends with the
\* bytes that were held in lookbehind
C31_FinalizeFlushesLookbehind ==
    (kind = "mp" /\ boundary # NoBoundary /\ AllWritten /\ finalized
       /\ BodyFault(body, boundary).what # "cr_in_name"
       /\ state = STATE_PART_DATA /\ index > 0)
        => LET a == Parts(messages)
               n == Len(a.data)
           IN /\ a.open
              /\ n >= index
              /\ SubSeq(a.data, n - index + 1, n)
                   = SubSeq(body, pos - index + 1, pos)

\* C31, amended: finalize() delivers nothing.  The bytes held for an
\* unconfirmed candidate are the last index bytes written, no slice
\* delivered reaches into them, the data delivered for the open part is the
\* bytes between the blank line and the candidate, and finalize() leaves
\* the events, lookbehind and index as they were
C31_FinalizeKeepsLookbehind ==
    /\ [](( kind = "mp" /\ boundary # NoBoundary /\ raised = "none"
            /\ max_size = 0
            /\ BodyFault(body, boundary).what # "cr_in_name"
            /\ state = STATE_PART_DATA /\ index > 0)
          => LET a == Parts(messages)
                 n == Len(a.data)
                 c == pos - index
             IN /\ SubSeq(lookbehind, 1, index) = SubSeq(body, c + 1, pos)
                /\ sliceEnd <= c
                /\ a.open
                /\ a.data = SubSeq(body, c - n + 1, c)
                /\ IsAt(body, CRLF \o CRLF, c - n - 4))
    /\ [][(kind = "mp" /\ ~finalized /\ finalized')
            => /\ messages' = messages
               /\ lookbehind' = lookbehind
               /\ index' = index
               /\ part_data_pos' = part_data_pos
               /\ sliceEnd' = sliceEnd]_vars

\* the stream ended after "a", the delimiter and one hyphen, and finalize()
\* has run: the part is open with the data "a"
C31_Witness ==
    /\ kind = "mp"
    /\ AllWritten
    /\ finalized
    /\ state = STATE_PART_DATA
    /\ index = Len(Delimiter(boundary)) + 1
    /\ SubSeq(lookbehind, 1, index) = Delimiter(boundary) \o <<HYPHEN>>
    /\ Parts(messages).open
    /\ Parts(messages).data = <<97>>

\* C32: finalize() on the multipart scanner, also after a write() that
\* raised and also when it has been called before, raises nothing, emits no
\* event and leaves the result assembled from the events as it was
C32_FinalizeAnytime ==
    [][(kind = "mp" /\ finalizes' > finalizes)
          => /\ raised' = raised
             /\ messages' = messages
             /\ Parts(messages').done = Parts(messages).done
             /\ \A dev \in DevModes :
                   SinkMP(messages', dev, NoUpload)
                     = SinkMP(messages, dev, NoUpload)
             /\ <<state, index, flags, cursize, lookbehind>>'
                  = <<state, index, flags, cursize, lookbehind>>]_vars

\* finalize() has been called twice after a write() that raised, with one
\* part begun
C32_Witness ==
    /\ kind = "mp"
    /\ finalizes = 2
    /\ raised = "ValueError"
    /\ CountEvents(messages, "part_begin") = 1

\* finalize() has been called twice on a scanner in the middle of a part
C32_WitnessOpen ==
    /\ kind = "mp"
    /\ finalizes = 2
    /\ raised = "none"
    /\ state = STATE_PART_DATA
    /\ pos = Len(body)

----------------------------------------------------------------------------
(* Empty fields and fields without a value *)

\* C33: a field starts at every byte that is no separator and that is the
\* first byte of the body or follows a separator, and nowhere else; when the
\* k-th of them starts a name without '=' that a separator ends, the k-th
\* pair of the result is that name with an empty value
C33_EmptyFieldsSkipped ==
    (kind = "qs" /\ max_size = 0 /\ pos = Len(body) /\ finalized)
        => LET Seps == {AMPERSAND, SEMICOLON}
               starts == {i \in 1..Len(body) :
                            /\ body[i] \notin Seps
                            /\ i = 1 \/ body[i - 1] \in Seps}
               ends(i) == {j \in i..Len(body) : body[j] \in Seps}
           IN /\ CountEvents(messages, "field_start") = Cardinality(starts)
              /\ \A i \in starts :
                    LET k == Cardinality({h \in starts : h <= i})
                        e == CHOOSE j \in ends(i) : \A m \in ends(i) : j <= m
                    IN (ends(i) # {}
                          /\ \A m \in i..(e - 1) : body[m] # EQUAL)
                         => /\ Len(QSParseResult) >= k
                            /\ QSParseResult[k]
                                 = <<SubSeq(body, i, e - 1), <<>>>>

\* C34: once finalize() has run, every field_start is followed by a
\* field_end with no field_start, field_end or end in between, there are as
\* many field_end as field_start events, and the result has one pair for
\* each field that was started
C34_EveryFieldEnded ==
    (kind = "qs" /\ finalized)
        => /\ \A i \in 1..Len(messages) :
                 messages[i][1] = "field_start"
                    => \E j \in (i + 1)..Len(messages) :
                          /\ messages[j][1] = "field_end"
                          /\ \A m \in (i + 1)..(j - 1) :
                                messages[m][1]
                                   \notin {"field_start", "field_end", "end"}
           /\ CountEvents(messages, "field_end")
                = CountEvents(messages, "field_start")
           /\ Len(QSParseResult) = CountEvents(messages, "field_start")

----------------------------------------------------------------------------
(* The orchestrator: FormParser.parse and MultipartParser.parse up to the   *)
(* sink's loop, forms.py:63-72 and 109-122                                  *)

\* the stream yields a body in at most this many chunks
MaxChunks == 3

\* the ways the transport may cut b into chunks, empty chunks included
RECURSIVE Chunkings(_, _)
Chunkings(b, n) ==
    IF n = 1 THEN {<<b>>}
    ELSE {<<b>>} \cup
         UNION { { <<SubSeq(b, 1, k)>> \o c :
                     c \in Chunkings(SubSeq(b, k + 1, Len(b)), n - 1) } :
                 k \in 0..Len(b) }

\* a variant that takes the stream for ended at once
StreamEnded_Early(ch) == TRUE

\* `async for chunk in request.stream()` has no further chunk,
\* forms.py:69, 119
StreamEnded(ch) == ch.pending = <<>>

\* the scanners on whole bodies, before request.stream() is called
InitParse == InitAll /\ feed_size = 0

\* parse calls request.stream(): the transport will deliver the body in
\* some chunks (request.py:214-237 marks the request as read)
ParseStart ==
    /\ kind \in {"mp", "qs"}
    /\ raised = "none"
    /\ ~request.is_read
    /\ request' = [request EXCEPT !.is_read = TRUE]
    /\ \E c \in Chunkings(body, MaxChunks) :
          channel' = [pending |-> c, received |-> 0]
    /\ UNCHANGED <<kind, pipe, websocket, last, ncalls, calls>>
    /\ UNCHANGED scanvars

\* one round of the loop: the stream yields a chunk and parse hands it to
\* write(), forms.py:69-70, 119-120
ParseWrite ==
    /\ kind \in {"mp", "qs"}
    /\ request.is_read
    /\ raised = "none"
    /\ ~finalized
    /\ ~StreamEnded(channel)
    /\ LET chunk == Head(channel.pending)
       IN /\ SetSelf(IF kind = "mp"
                     THEN MPWrite(Self, chunk, boundary, pos)
                     ELSE QSWrite(Self, chunk, pos))
          /\ pos' = pos + Len(chunk)
          /\ calls' = Append(calls, <<"write", chunk>>)
    /\ channel' = [pending |-> Tail(channel.pending),
                   received |-> channel.received + 1]
    /\ UNCHANGED <<kind, body, boundary, max_size, finalized, feed_size, fields,
                   finalizes, empties>>
    /\ UNCHANGED <<request, pipe, websocket, last, ncalls>>

\* the loop has ended and parse calls finalize(), forms.py:72, 122
ParseFinalize ==
    /\ kind \in {"mp", "qs"}
    /\ request.is_read
    /\ raised = "none"
    /\ ~finalized
    /\ StreamEnded(channel)
    /\ SetSelf(IF kind = "mp" THEN MPFinalizeOp(Self) ELSE QSFinalizeOp(Self))
    /\ finalized' = TRUE
    /\ finalizes' = finalizes + 1
    /\ calls' = Append(calls, <<"finalize", <<>>>>)
    /\ UNCHANGED <<kind, body, pos, boundary, max_size, empties, feed_size,
                   fields>>
    /\ UNCHANGED <<request, channel, pipe, websocket, last, ncalls>>

NextParse == ParseStart \/ ParseWrite \/ ParseFinalize

SpecParse == InitParse /\ [][NextParse]_vars

C35_WitnessRaised ==
    /\ kind = "mp"
    /\ raised = "ValueError"
    /\ Len(calls) = 2
    /\ Len(channel.pending) = 1
    /\ ~finalized

----------------------------------------------------------------------------
(* The file handles of the multipart sink *)

\* C36: when MultipartParser.parse returns or raises, the handle the sink
\* opened last and has not put into the result is closed: after the loop
\* over the events no open handle is left in fileobj, whatever the mode of
\* the interpreter and the upload destination
C36_NoUnownedOpenHandle ==
    (kind = "mp" /\ AllWritten /\ finalized /\ raised = "none")
        => \A dev \in DevModes : \A upload_to \in {NoUpload, UploadPath} :
              ~SinkMP(messages, dev, upload_to).fileobj.open

----------------------------------------------------------------------------
(* The bytes before the opening boundary *)

\* C37: with l the number of CR and LF bytes the body starts with and m the
\* number of bytes after them that agree with "--token" CR LF: while the
\* bytes scanned end within those l + m bytes and before the end of the
\* opening line there is no event and no error, in the state Start within
\* the newlines and StartBoundary after them; when a byte that disagrees has
\* been scanned a ValueError is raised and there is no event; when the whole
\* opening line has been scanned the events are one part_begin, and no
\* second part_begin follows it directly
C37_LeadingNewlinesSkipped ==
    (kind = "mp" /\ boundary # NoBoundary)
        => LET o == Opening(boundary)
               s == Scanned
               l == CHOOSE k \in 0..Len(body) :
                       /\ \A i \in 1..k : body[i] \in {CR, LF}
                       /\ k = Len(body) \/ body[k + 1] \notin {CR, LF}
               m == CHOOSE k \in 0..Len(o) :
                       /\ \A i \in 1..k :
                             l + i <= Len(body) /\ body[l + i] = o[i]
                       /\ \/ k = Len(o)
                          \/ l + k + 1 > Len(body)
                          \/ body[l + k + 1] # o[k + 1]
           IN /\ (s <= l + m /\ s < l + Len(o))
                    => /\ raised = "none"
                       /\ messages = <<>>
                       /\ state = IF s <= l /\ l > 0 THEN STATE_START
                                  ELSE IF s = 0 THEN STATE_START
                                  ELSE STATE_START_BOUNDARY
                       /\ s > l => index = s - l
              /\ (m < Len(o) /\ s > l + m)
                    => raised = "ValueError" /\ messages = <<>>
              /\ (m = Len(o) /\ s >= l + Len(o))
                    => /\ messages # <<>>
                       /\ messages[1] = <<"part_begin", <<>>>>
                       /\ Len(messages) >= 2 => messages[2][1] # "part_begin"
                       /\ s = l + Len(o)
                            => /\ Len(messages) = 1
                               /\ raised = "none"
                               /\ state = STATE_HEADER_FIELD_START

\* LF CR before the opening boundary, written up to the end of the opening
\* line: one part_begin
C37_Witness ==
    /\ kind = "mp" /\ boundary = <<88>>
    /\ Len(body) > 7
    /\ SubSeq(body, 1, 7) = <<LF, CR>> \o Opening(<<88>>)
    /\ pos = 7
    /\ readEnd = 7
    /\ empties = 0
    /\ cursize = 7
    /\ messages = << <<"part_begin", <<>>>> >>

\* the first byte after the newlines is not a hyphen
C37_WitnessWrong ==
    /\ kind = "mp" /\ boundary = <<88>>
    /\ body = <<CR, LF, 97>>
    /\ raised = "ValueError"
    /\ messages = <<>>

----------------------------------------------------------------------------
(* WebSocket, websocket.py:15-80 *)

\* the transport delivers at most this many messages to a websocket
MaxMsgs == 3

\* an application makes at most this many calls on a websocket
MaxWSCalls == 4

\* the messages the server may deliver
WSMsgs ==
    { [type |-> "websocket.connect", text |-> <<>>],
      [type |-> "websocket.receive", text |-> <<97>>],
      [type |-> "websocket.disconnect", text |-> <<>>] }

\* the sequences of at most n such messages
RECURSIVE WSTransports(_)
WSTransports(n) ==
    IF n = 0 THEN {<<>>}
    ELSE WSTransports(n - 1)
           \cup { Append(q, m) : q \in WSTransports(n - 1), m \in WSMsgs }

\* the outcome of a call that awaits a message the transport does not have
WSAwaiting(ws, ch) ==
    [websocket |-> ws, channel |-> ch, exc |-> "awaiting", value |-> <<>>]

\* `await self._receive()`: the next message is taken from the transport
WSTake(ch) ==
    [pending |-> Tail(ch.pending), received |-> ch.received + 1]

\* WebSocket.connect, websocket.py:34-41
WebSocketConnect(ws, ch) ==
    IF ws.partner_state = "connecting"
    THEN IF ch.pending = <<>> THEN WSAwaiting(ws, ch)
         ELSE IF Head(ch.pending).type # "websocket.connect"
         THEN [websocket |-> ws, channel |-> WSTake(ch),
               exc |-> "AssertionError", value |-> <<>>]
         ELSE [websocket |-> [ws EXCEPT !.partner_state = "connected"],
               channel |-> WSTake(ch), exc |-> "none", value |-> <<>>]
    ELSE [websocket |-> ws, channel |-> ch, exc |-> "none", value |-> <<>>]

\* WebSocket.receive once the partner is connected, websocket.py:52-57:
\* line 54 compares partner_state with STATES.disconnected and assigns
\* nothing
WebSocketReceived(ws, ch) ==
    IF ch.pending = <<>> THEN WSAwaiting(ws, ch)
    ELSE IF Head(ch.pending).type = "websocket.disconnect"
    THEN [websocket |-> ws, channel |-> WSTake(ch),
          exc |-> "ASGIConnectionClosed", value |-> <<>>]
    ELSE [websocket |-> ws, channel |-> WSTake(ch), exc |-> "none",
          value |-> Head(ch.pending).text]

\* WebSocket.receive, websocket.py:43-57
WebSocketReceive(ws, ch) ==
    IF ws.partner_state = "disconnected"
    THEN [websocket |-> ws, channel |-> ch, exc |-> "ASGIConnectionClosed",
          value |-> <<>>]
    ELSE IF ws.partner_state = "connecting"
    THEN LET Connected(c) ==
                 IF c.exc # "none" THEN c
                 ELSE WebSocketReceived(c.websocket, c.channel)
         IN Connected(WebSocketConnect(ws, ch))
    ELSE WebSocketReceived(ws, ch)

\* WebSocket.send, websocket.py:59-67
WebSocketSend(ws, msg) ==
    IF ws.state = "disconnected"
    THEN [websocket |-> ws, exc |-> "ASGIConnectionClosed"]
    ELSE [websocket |-> [ws EXCEPT !.sent = Append(@, msg)], exc |-> "none"]

\* WebSocket.accept, websocket.py:69-75
WebSocketAccept(ws, ch) ==
    LET Connected(c) ==
            IF c.exc # "none" THEN c
            ELSE LET Sent(s) ==
                         [websocket |-> IF s.exc = "none"
                                        THEN [s.websocket EXCEPT
                                                !.state = "connected"]
                                        ELSE s.websocket,
                          channel |-> c.channel, exc |-> s.exc,
                          value |-> <<>>]
                 IN Sent(WebSocketSend(c.websocket, "websocket.accept"))
    IN Connected(WebSocketConnect(ws, ch))

\* WebSocket.close, websocket.py:77-80
WebSocketClose(ws) ==
    LET Sent(s) ==
            [websocket |-> IF s.exc = "none"
                           THEN [s.websocket EXCEPT !.state = "disconnected"]
                           ELSE s.websocket,
             exc |-> s.exc]
    IN Sent(WebSocketSend(ws, "websocket.close"))

\* WebSocket.__init__, websocket.py:24-28, over a transport that holds the
\* messages the server will deliver
InitWS ==
    /\ kind = "ws"
    /\ ScannerIdle
    /\ request = [content_type |-> "none", dev |-> FALSE, is_read |-> FALSE,
                  body |-> NoBody, form |-> NoForm]
    /\ \E q \in WSTransports(MaxMsgs) :
          channel = [pending |-> q, received |-> 0]
    /\ pipe = [app_is_closed |-> FALSE, client_is_closed |-> FALSE,
               app_queue |-> <<>>, client_queue |-> <<>>]
    /\ last = [op |-> "none", exc |-> "none", value |-> <<>>]
    /\ ncalls = 0
    /\ calls = <<>>
    /\ websocket = NoWebSocket

\* await ws.receive(), when the transport has the messages it awaits
WSReceiveCall ==
    /\ kind = "ws"
    /\ ncalls < MaxWSCalls
    /\ LET Returned(r) ==
               /\ r.exc # "awaiting"
               /\ websocket' = r.websocket
               /\ channel' = r.channel
               /\ last' = [op |-> "receive", exc |-> r.exc, value |-> r.value]
       IN Returned(WebSocketReceive(websocket, channel))
    /\ ncalls' = ncalls + 1
    /\ UNCHANGED <<kind, request, pipe, calls>>
    /\ UNCHANGED scanvars

\* await ws.send(b'a')
WSSendCall ==
    /\ kind = "ws"
    /\ ncalls < MaxWSCalls
    /\ LET Returned(r) ==
               /\ websocket' = r.websocket
               /\ last' = [op |-> "send", exc |-> r.exc, value |-> <<>>]
       IN Returned(WebSocketSend(websocket, "websocket.send"))
    /\ ncalls' = ncalls + 1
    /\ UNCHANGED <<kind, request, channel, pipe, calls>>
    /\ UNCHANGED scanvars

\* await ws.accept(), when the transport has the message it awaits
WSAcceptCall ==
    /\ kind = "ws"
    /\ ncalls < MaxWSCalls
    /\ LET Returned(r) ==
               /\ r.exc # "awaiting"
               /\ websocket' = r.websocket
               /\ channel' = r.channel
               /\ last' = [op |-> "accept", exc |-> r.exc, value |-> <<>>]
       IN Returned(WebSocketAccept(websocket, channel))
    /\ ncalls' = ncalls + 1
    /\ UNCHANGED <<kind, request, pipe, calls>>
    /\ UNCHANGED scanvars

\* await ws.close()
WSCloseCall ==
    /\ kind = "ws"
    /\ ncalls < MaxWSCalls
    /\ LET Returned(r) ==
               /\ websocket' = r.websocket
               /\ last' = [op |-> "close", exc |-> r.exc, value |-> <<>>]
       IN Returned(WebSocketClose(websocket))
    /\ ncalls' = ncalls + 1
    /\ UNCHANGED <<kind, request, channel, pipe, calls>>
    /\ UNCHANGED scanvars

NextWS == WSReceiveCall \/ WSSendCall \/ WSAcceptCall \/ WSCloseCall

SpecWS == InitWS /\ [][NextWS]_vars

\* C38: when receive() has taken a websocket.disconnect and raised
\* ASGIConnectionClosed, partner_state is disconnected and the next
\* receive() raises ASGIConnectionClosed and takes no message from the
\* transport; when close() has returned, state is disconnected and the next
\* send() raises ASGIConnectionClosed and sends nothing
C38_DisconnectedIsFinal ==
    /\ []((kind = "ws" /\ last.op = "receive"
             /\ last.exc = "ASGIConnectionClosed")
            => websocket.partner_state = "disconnected")
    /\ [][(kind = "ws" /\ last.op = "receive"
             /\ last.exc = "ASGIConnectionClosed"
             /\ ncalls' = ncalls + 1 /\ last'.op = "receive")
            => /\ last'.exc = "ASGIConnectionClosed"
               /\ channel' = channel]_vars
    /\ []((kind = "ws" /\ last.op = "close" /\ last.exc = "none")
            => websocket.state = "disconnected")
    /\ [][(kind = "ws" /\ websocket.state = "disconnected"
             /\ ncalls' = ncalls + 1 /\ last'.op = "send")
            => /\ last'.exc = "ASGIConnectionClosed"
               /\ websocket'.sent = websocket.sent]_vars

----------------------------------------------------------------------------
(* The lookbehind buffer *)

\* C39: in the state PartData, index is between 0 and the length of the
\* delimiter plus one, index - 1 is a position of lookbehind, no store into
\* lookbehind fails, and while nothing was raised the first index bytes of
\* lookbehind are the last index bytes of the body that were scanned
C39_LookbehindHoldsCandidate ==
    (kind = "mp" /\ boundary # NoBoundary)
        => /\ raised # "IndexError"
           /\ state = STATE_PART_DATA
                => /\ 0 <= index
                   /\ index <= Len(Delimiter(boundary)) + 1
                   /\ index > 0 => index - 1 < Len(lookbehind)
                   /\ Len(lookbehind) = Len(boundary) + 8
                   /\ raised = "none"
                        => /\ index <= Scanned
                           /\ \A i \in 1..index :
                                 lookbehind[i] = body[Scanned - index + i]

----------------------------------------------------------------------------
(* The size accounting of both scanners *)

\* C40: after every write() that returned, cursize is at least 0, at most
\* max_size when that is positive, and equal to the number of bytes the
\* scanner was given and has not clipped, no byte beyond cursize has been
\* read or delivered, and prune_data gives no negative length for any next
\* chunk; cursize never decreases; once cursize is max_size a write() reads
\* and delivers no further byte; with max_size = 0 cursize counts every
\* byte written
C40_CursizeCountsConsumed ==
    /\ []((kind \in {"mp", "qs"} /\ raised = "none")
            => /\ 0 <= cursize
               /\ max_size > 0 => cursize <= max_size
               /\ cursize = Scanned
               /\ max_size = 0 => cursize = pos
               /\ readEnd <= cursize
               /\ sliceEnd <= cursize
               /\ \A n \in 0..(Len(body) - pos) :
                     prune_data(n, cursize, max_size) >= 0)
    /\ [][(kind \in {"mp", "qs"}) => (cursize' >= cursize)]_vars
    /\ [][(kind \in {"mp", "qs"} /\ max_size > 0 /\ cursize = max_size)
            => /\ cursize' = cursize
               /\ readEnd' = readEnd
               /\ sliceEnd' = sliceEnd]_vars

====
